---- MODULE Spec2Model ----
(***************************************************************************)
(* IPFS metadata resolution of the credential-verification front end:      *)
(*   - fetchIpfs of the verify page with proxy hop (src/unnamed/part_001), *)
(*   - fetchIpfs of src/app/verify/[uuid]/page.tsx (gateways only),        *)
(*   - openDetails / closeDetails of MintedCredentialsSummary              *)
(*     (src/components/bulk-upload.tsx),                                   *)
(*   - the /api/ipfs route handler GET (src/unnamed/part_002).             *)
(* A JavaScript string is a sequence of one-character strings; a template  *)
(* literal's fixed host part is kept as one opaque element.  Every await   *)
(* of an async function ends an action: the code between two awaits runs   *)
(* to completion on the single UI thread.                                  *)
(***************************************************************************)
EXTENDS Integers, Sequences, FiniteSets, TLC

(***************************************************************************)
(* Bounds of the model.                                                    *)
(***************************************************************************)
\* number of resolutions (calls of fetchIpfs / openDetails / GET) of a run
MaxRes == 2

Res == 1..MaxRes

\* number of pieces a pointer string handed to a function is made of
MaxPieces == 3

\* nesting depth of the arrays and objects of an upstream record
MaxDepth == 1

\* number of entries of the attributes list of a metadata document
MaxAttrs == 2

\* number of pieces of an upstream status string
MaxStatusPieces == 2

(***************************************************************************)
(* Strings.                                                                *)
(***************************************************************************)
Lower(c) ==
  CASE c = "A" -> "a" [] c = "R" -> "r" [] c = "H" -> "h" [] c = "T" -> "t"
    [] c = "P" -> "p" [] c = "S" -> "s" [] c = "I" -> "i" [] c = "F" -> "f"
    [] OTHER -> c

LowerStr(s) == [i \in 1..Len(s) |-> Lower(s[i])]

\* String.prototype.startsWith
StartsWith(s, p) == Len(s) >= Len(p) /\ SubSeq(s, 1, Len(p)) = p

\* a regular expression /^p/i
StartsWithCI(s, p) == StartsWith(LowerStr(s), p)

Drop(s, n) == SubSeq(s, n + 1, Len(s))

RECURSIVE TrimStart(_)
TrimStart(s) == IF s # <<>> /\ Head(s) = " " THEN TrimStart(Tail(s)) ELSE s

RECURSIVE TrimEnd(_)
TrimEnd(s) ==
  IF s # <<>> /\ s[Len(s)] = " " THEN TrimEnd(SubSeq(s, 1, Len(s) - 1)) ELSE s

\* String.prototype.trim
Trim(s) == TrimEnd(TrimStart(s))

\* String.prototype.split("/"): always at least one piece
RECURSIVE Split(_, _)
Split(s, cur) ==
  IF s = <<>> THEN <<cur>>
  ELSE IF Head(s) = "/" THEN <<cur>> \o Split(Tail(s), <<>>)
  ELSE Split(Tail(s), Append(cur, Head(s)))

\* Array.prototype.filter(Boolean) on an array of strings
FilterBoolean(parts) == SelectSeq(parts, LAMBDA p : p # <<>>)

\* Array.prototype.join("/")
RECURSIVE Join(_)
Join(parts) ==
  IF parts = <<>> THEN <<>>
  ELSE IF Len(parts) = 1 THEN parts[1]
  ELSE parts[1] \o <<"/">> \o Join(Tail(parts))

Str_ar    == <<"a", "r", ":", "/", "/">>
Str_http  == <<"h", "t", "t", "p", ":", "/", "/">>
Str_https == <<"h", "t", "t", "p", "s", ":", "/", "/">>
Str_ipfsScheme == <<"i", "p", "f", "s", ":", "/", "/">>
Str_ipfsPath   == <<"i", "p", "f", "s", "/">>
Str_slashIpfs  == <<"/", "i", "p", "f", "s", "/">>
Str_arweave    == Str_https \o <<"arweave.net", "/">>

\* /^https?:\/\//i.test(s)
IsHttpCI(s) == StartsWithCI(s, Str_http) \/ StartsWithCI(s, Str_https)

\* /^https?:\/\//.test(s)
IsHttp(s) == StartsWith(s, Str_http) \/ StartsWith(s, Str_https)

(***************************************************************************)
(* JavaScript values handed to the normalizer.                             *)
(***************************************************************************)
JsString(s) == [t |-> "string", v |-> s]
JsNull      == [t |-> "null"]
JsUndefined == [t |-> "undefined"]
JsNumber(n) == [t |-> "number", v |-> n]

JsArray(items) == [t |-> "array", v |-> items]
\* a plain object: f maps the keys it has to their values
JsObject(f) == [t |-> "object", f |-> f]

Digit(n) == <<"0", "1", "2", "3", "4", "5", "6", "7", "8", "9">>[n + 1]

\* String(val): a plain object gives "[object Object]", an array its elements
\* joined by commas, null and undefined elements as empty strings
RECURSIVE ToJsString(_)
ToJsString(val) ==
  CASE val.t = "string" -> val.v
    [] val.t = "number" -> <<Digit(val.v)>>
    [] val.t = "null" -> <<"n", "u", "l", "l">>
    [] val.t = "object" -> <<"[object Object]">>
    [] val.t = "array" ->
         IF val.v = <<>> THEN <<>>
         ELSE LET h == IF Head(val.v).t \in {"null", "undefined"} THEN <<>>
                       ELSE ToJsString(Head(val.v))
              IN  IF Len(val.v) = 1 THEN h
                  ELSE h \o <<",">> \o ToJsString(JsArray(Tail(val.v)))
    [] OTHER -> <<"u", "n", "d", "e", "f", "i", "n", "e", "d">>

\* JavaScript truthiness of a value
Truthy(val) ==
  CASE val.t = "string" -> val.v # <<>>
    [] val.t = "number" -> val.v # 0
    [] val.t \in {"object", "array"} -> TRUE
    [] OTHER -> FALSE

(***************************************************************************)
(* normalize of fetchIpfs (part_001) and of the route handler (part_002):  *)
(* the two bodies are the same text.                                       *)
(***************************************************************************)
\* normalize with a fault: the leading /ipfs/ is kept
normalizeKeepsPath(val) ==
  LET link0 == IF val.t = "string" THEN val.v
               ELSE IF val.t \in {"null", "undefined"} THEN <<>>
               ELSE ToJsString(val)
      link1 == Trim(link0)
      link2 == IF StartsWithCI(link1, Str_ipfsScheme)
               THEN Drop(link1, Len(Str_ipfsScheme)) ELSE link1
  IN  IF link1 = <<>> THEN <<>>
      ELSE IF StartsWithCI(link1, Str_ar)
      THEN Str_arweave \o Drop(link1, Len(Str_ar))
      ELSE IF IsHttpCI(link1) THEN link1
      ELSE link2

normalize(val) ==
  LET link0 == IF val.t = "string" THEN val.v
               ELSE IF val.t \in {"null", "undefined"} THEN <<>>
               ELSE ToJsString(val)
      link1 == Trim(link0)
      link2 == IF StartsWithCI(link1, Str_ipfsScheme)
               THEN Drop(link1, Len(Str_ipfsScheme)) ELSE link1
      link3 == IF StartsWithCI(link2, Str_slashIpfs)
               THEN Drop(link2, Len(Str_slashIpfs))
               ELSE IF StartsWithCI(link2, Str_ipfsPath)
               THEN Drop(link2, Len(Str_ipfsPath)) ELSE link2
      link4 == IF StartsWithCI(link3, Str_ipfsPath)
               THEN Drop(link3, Len(Str_ipfsPath)) ELSE link3
  IN  IF link1 = <<>> THEN <<>>
      ELSE IF StartsWithCI(link1, Str_ar)
      THEN Str_arweave \o Drop(link1, Len(Str_ar))
      ELSE IF IsHttpCI(link1) THEN link1
      ELSE link4

\* normalize of page.tsx fetchIpfs and of openDetails: case-sensitive, no trim
normalizeLegacy(link) ==
  IF IsHttp(link) THEN link
  ELSE IF StartsWith(link, Str_ipfsScheme) THEN Drop(link, Len(Str_ipfsScheme))
  ELSE IF StartsWith(link, Str_slashIpfs) THEN Drop(link, Len(Str_slashIpfs))
  ELSE link

\* normalize of openDetails handed a value that is not a string: the regular
\* expression test coerces it, `link.startsWith` is not a function
normalizeLegacyThrows(link) ==
  link.t # "string" /\ ~IsHttp(ToJsString(link))

(***************************************************************************)
(* extractIpfsLink of the verify page (part_001 276-333).                  *)
(***************************************************************************)
\* the `keys` array, in its order
extractKeys ==
  << "ipfs_link", "ipfs", "ip_fs_link", "tokenURI", "tokenUri", "url", "uri",
     "href", "link", "src", "path", "image", "animation_url", "metadata_uri",
     "gateway", "cid", "hash", "/" >>

LowerLetters ==
  { "a", "b", "c", "d", "e", "f", "g", "h", "i", "j", "k", "l", "m", "n", "o",
    "p", "q", "r", "s", "t", "u", "v", "w", "x", "y", "z" }
UpperLetters ==
  { "A", "B", "C", "D", "E", "F", "G", "H", "I", "J", "K", "L", "M", "N", "O",
    "P", "Q", "R", "S", "T", "U", "V", "W", "X", "Y", "Z" }
Digits19 == { "1", "2", "3", "4", "5", "6", "7", "8", "9" }

\* [1-9A-HJ-NP-Za-km-z] under the i flag: every letter matches in one of its
\* two cases
Base58CI == Digits19 \cup LowerLetters \cup UpperLetters
\* [\w-]
WordOrDash == Base58CI \cup {"0", "_", "-"}

AllIn(s, chars) == \A i \in 1..Len(s) : s[i] \in chars

\* /^(Qm[1-9A-HJ-NP-Za-km-z]{44,}|bafy[\w-]{20,})$/i.test(s)
isStringCid(s) ==
  \/ /\ Len(s) >= 46
     /\ SubSeq(s, 1, 2) \in { <<"Q", "m">>, <<"q", "m">>, <<"Q", "M">>, <<"q", "M">> }
     /\ AllIn(Drop(s, 2), Base58CI)
  \/ /\ Len(s) >= 24
     /\ s[1] \in {"b", "B"} /\ s[2] \in {"a", "A"}
     /\ s[3] \in {"f", "F"} /\ s[4] \in {"y", "Y"}
     /\ AllIn(Drop(s, 4), WordOrDash)

\* val?.[k]: the value of a key a plain object has, else undefined
Get(val, k) ==
  IF val.t = "object" /\ k \in DOMAIN val.f THEN val.f[k] ELSE JsUndefined

RECURSIVE extractIpfsLink(_)
RECURSIVE extractFirst(_)

\* extractFirst with a fault: the loops do not return at the first truthy
\* result, the last one wins
extractLast(items) ==
  IF items = <<>> THEN JsNull
  ELSE LET got == extractIpfsLink(items[Len(items)])
       IN  IF Truthy(got) THEN got
           ELSE extractFirst(SubSeq(items, 1, Len(items) - 1))

\* the loops `for (const it of val)` and `for (const k of keys)`: the first
\* truthy result, else null
extractFirst(items) ==
  IF items = <<>> THEN JsNull
  ELSE LET got == extractIpfsLink(Head(items))
       IN  IF Truthy(got) THEN got ELSE extractFirst(Tail(items))

extractIpfsLink(val) ==
  IF ~Truthy(val) /\ ~(val.t = "number" /\ val.v = 0) THEN JsNull
  ELSE IF val.t = "string" THEN JsString(Trim(val.v))
  ELSE IF val.t = "array" THEN extractFirst(val.v)
  ELSE IF val.t = "object"
  THEN LET present == SelectSeq(extractKeys, LAMBDA k : k \in DOMAIN val.f)
           got == extractFirst([i \in 1..Len(present) |-> val.f[present[i]]])
           cands == SelectSeq(<< Get(val, "cid"), Get(val, "hash"), Get(val, "/") >>,
                              Truthy)
           possible == IF cands = <<>> THEN JsUndefined ELSE cands[1]
       IN  IF Truthy(got) THEN got
           ELSE IF /\ possible.t = "string"
                   /\ \/ isStringCid(possible.v)
                      \/ StartsWith(possible.v, Str_ipfsScheme)
           THEN possible
           ELSE JsNull
  ELSE JsNull

(***************************************************************************)
(* The effect of the verify page that finds the pointer in the response    *)
(* of the credential-info call (part_001 235-254).                         *)
(***************************************************************************)
\* a || b || ... || null over a list of values
RECURSIVE FirstTruthy(_)
FirstTruthy(vals) ==
  IF vals = <<>> THEN JsNull
  ELSE IF Truthy(Head(vals)) THEN Head(vals) ELSE FirstTruthy(Tail(vals))

\* lines 235-245: `const ipfs`
ipfsOf(data) ==
  FirstTruthy(<< Get(data, "ipfs_link"), Get(data, "ip_fs_link"),
                 Get(data, "ipfsHash"), Get(data, "ipfs"),
                 Get(data, "tokenURI"), Get(data, "tokenUri"),
                 Get(Get(data, "credential"), "ipfs_link"),
                 Get(Get(data, "credential"), "tokenURI"),
                 Get(Get(data, "credential"), "tokenUri") >>)

\* lines 248-251: `const ipfsCandidate`
ipfsCandidateOf(data) ==
  LET a == extractIpfsLink(ipfsOf(data))
      b == extractIpfsLink(Get(data, "credential"))
  IN  IF Truthy(a) THEN a ELSE IF Truthy(b) THEN b ELSE extractIpfsLink(data)

\* lines 252-253: `const ipfsStr`
ipfsStrOf(data) ==
  LET c == ipfsCandidateOf(data)
  IN  IF c.t = "string" THEN Trim(c.v) ELSE <<>>

(***************************************************************************)
(* getAttr of the verify page and the fields rendered with it              *)
(* (part_001 100-112, 447-490).                                            *)
(***************************************************************************)
\* (a?.trait_type || a?.traitType)
traitOf(a) ==
  IF Truthy(Get(a, "trait_type")) THEN Get(a, "trait_type")
  ELSE Get(a, "traitType")

\* found?.value ?? null
valueOrNull(found) ==
  IF Get(found, "value").t \in {"null", "undefined"} THEN JsNull
  ELSE Get(found, "value")

\* lines 100-112
getAttr(data, key) ==
  LET attrs == Get(data, "attributes")
  IN  IF attrs.t = "array"
      THEN LET hits == SelectSeq(attrs.v, LAMBDA a : traitOf(a) = JsString(key))
           IN  IF hits = <<>> THEN JsNull ELSE valueOrNull(hits[1])
      ELSE JsNull

\* the flat fields tried after getAttr for a label (lines 475, 484-487)
flatSynonyms(key) ==
  IF key = <<"GPA">> THEN << "gpa", "score" >> ELSE << "major" >>

\* the placeholder rendered when nothing is found
EmDash == JsString(<<"em-dash">>)

\* getAttr(key) || ipfsData?.synonym || ... || placeholder
displayed(data, key) ==
  LET syn == flatSynonyms(key)
      v == FirstTruthy(<< getAttr(data, key) >>
                         \o [i \in 1..Len(syn) |-> Get(data, syn[i])])
  IN  IF Truthy(v) THEN v ELSE EmDash

(***************************************************************************)
(* The verification-status mappings: the credential-info effects           *)
(* (part_001 221-233, part_002 87-100, page.tsx 180-190) and submit of the *)
(* upload verifier (part_002 449-473).  A status string is a sequence of   *)
(* pieces; the substrings the code searches for are pieces.                *)
(***************************************************************************)
\* String.prototype.toUpperCase, piece by piece
UpperPiece(w) ==
  CASE w = "verified" -> "VERIFIED" [] w = "tamper" -> "TAMPER"
    [] w = "ed" -> "ED" [] w = "pending" -> "PENDING"
    [] OTHER -> w

toUpperCase(str) == [i \in 1..Len(str) |-> UpperPiece(str[i])]

\* String.prototype.includes for a searched piece
Includes(str, w) == \E i \in 1..Len(str) : str[i] = w

\* (data.status || data.result || "").toString().toUpperCase()
rawStatusOf(data) ==
  toUpperCase(ToJsString(FirstTruthy(<< Get(data, "status"), Get(data, "result"),
                                        JsString(<<>>) >>)))

\* mapStatus with a fault: an unrecognized status is reported as not found
mapStatusFailClosed(rawStatus) ==
  IF rawStatus \in { <<"VERIFIED">>, <<"VALID">>, <<"SUCCESS">> } THEN "VERIFIED"
  ELSE IF rawStatus \in { <<"NOT_FOUND">>, <<"MISSING">>, <<"NO_MATCH">> }
  THEN "NOT_FOUND"
  ELSE IF rawStatus \in { <<"TAMPER", "ED">>, <<"INVALID">>, <<"MANIPULATED">> }
  THEN "TAMPERED"
  ELSE "NOT_FOUND"

\* part_001 225-231, part_002 92-98
mapStatus(rawStatus) ==
  IF rawStatus \in { <<"VERIFIED">>, <<"VALID">>, <<"SUCCESS">> } THEN "VERIFIED"
  ELSE IF rawStatus \in { <<"NOT_FOUND">>, <<"MISSING">>, <<"NO_MATCH">> }
  THEN "NOT_FOUND"
  ELSE IF rawStatus \in { <<"TAMPER", "ED">>, <<"INVALID">>, <<"MANIPULATED">> }
  THEN "TAMPERED"
  ELSE "VERIFIED"

\* part_002 451-473: `mapped` of submit
submitStatus(raw) ==
  IF raw \in { <<"VERIFIED">>, <<"VALID">>, <<"AUTHENTIC">>, <<"ORIGINAL">> }
  THEN "VERIFIED"
  ELSE IF \/ Includes(raw, "TAMPER") \/ Includes(raw, "MISMATCH")
          \/ raw \in { <<"INVALID">>, <<"FORGED">>, <<"FAKE">> }
  THEN "TAMPERED"
  ELSE IF \/ Includes(raw, "NOT_FOUND") \/ Includes(raw, "NO_MATCH")
          \/ raw \in { <<"UNKNOWN">>, <<"MISSING">>, <<"NO_RECORD">> }
  THEN "NOT_FOUND"
  ELSE "TAMPERED"

(***************************************************************************)
(* Candidate URL lists.                                                    *)
(***************************************************************************)
\* the gateways array of fetchIpfs (part_001) and pathGateways of part_002
pathGateways ==
  << "https://cloudflare-ipfs.com/ipfs/", "https://ipfs.io/ipfs/",
     "https://nftstorage.link/ipfs/", "https://dweb.link/ipfs/",
     "https://gateway.pinata.cloud/ipfs/" >>

subdomainGateways == << ".ipfs.nftstorage.link", ".ipfs.dweb.link" >>

\* the gateways array of page.tsx fetchIpfs and of openDetails
legacyGateways ==
  << "https://cloudflare-ipfs.com/ipfs/", "https://ipfs.io/ipfs/",
     "https://dweb.link/ipfs/" >>

\* cid and path of a bare identifier: split("/").filter(Boolean), shift
CidOf(src) ==
  LET parts == FilterBoolean(Split(src, <<>>))
  IN  IF parts = <<>> THEN <<>> ELSE Head(parts)

PathOf(src) ==
  LET parts == FilterBoolean(Split(src, <<>>))
  IN  IF Len(parts) > 1 THEN <<"/">> \o Join(Tail(parts)) ELSE <<>>

\* clientCandidates with a fault: the three gateways of page.tsx
clientCandidatesLegacy(normalized) ==
  IF IsHttpCI(normalized) THEN <<normalized>>
  ELSE [i \in 1..Len(legacyGateways) |->
          <<legacyGateways[i]>> \o CidOf(normalized) \o PathOf(normalized)]

\* tryUrls of fetchIpfs (part_001)
clientCandidates(normalized) ==
  IF IsHttpCI(normalized) THEN <<normalized>>
  ELSE [i \in 1..Len(pathGateways) |->
          <<pathGateways[i]>> \o CidOf(normalized) \o PathOf(normalized)]

\* buildCandidates with a fault: the subdomain-style URLs come first
buildCandidatesSubdomainFirst(src) ==
  IF IsHttpCI(src) THEN <<src>>
  ELSE [i \in 1..Len(subdomainGateways) |->
          <<"https://">> \o CidOf(src) \o <<subdomainGateways[i]>> \o PathOf(src)]
       \o [i \in 1..Len(pathGateways) |->
          <<pathGateways[i]>> \o CidOf(src) \o PathOf(src)]

\* buildCandidates of the route handler
buildCandidates(src) ==
  IF IsHttpCI(src) THEN <<src>>
  ELSE [i \in 1..Len(pathGateways) |->
          <<pathGateways[i]>> \o CidOf(src) \o PathOf(src)]
       \o [i \in 1..Len(subdomainGateways) |->
          <<"https://">> \o CidOf(src) \o <<subdomainGateways[i]>> \o PathOf(src)]

\* tryUrls of page.tsx fetchIpfs and of openDetails: no filter(Boolean)
legacyCandidates(normalized) ==
  IF IsHttp(normalized) THEN <<normalized>>
  ELSE LET parts == Split(normalized, <<>>)
           hash  == Head(parts)
           rest  == Tail(parts)
           path  == IF rest # <<>> THEN <<"/">> \o Join(rest) ELSE <<>>
       IN  [i \in 1..Len(legacyGateways) |-> <<legacyGateways[i]>> \o hash \o path]

(***************************************************************************)
(* State.                                                                  *)
(***************************************************************************)
VARIABLES
  route,             \* the module whose code runs in this behaviour
  ipfsData,          \* useState<any>(null)
  ipfsLoading,       \* useState(false)
  ipfsError,         \* useState<string | null>(null)
  ipfsResolvedUrl,   \* useState<string | null>(null)
  ipfsFallbackUrls,  \* useState<string[]>([])
  activeCred,        \* useState<BackendCred | null>(null), by credential id
  detailsOpen,       \* useState(false)
  response,          \* per handler invocation: the response GET returned
  calls,             \* number of resolutions started so far
  pc,                \* per resolution: the await it is suspended at
  rawIpfs,           \* per resolution: its argument
  normalized,        \* per resolution: `const normalized`
  tryUrls,           \* per resolution: `const tryUrls`
  idx,               \* per resolution: position of `for (const url of tryUrls)`
  ct,                \* per resolution: the `ct` local of the current response
  hung,              \* per resolution: the awaited promise never settles
  log,               \* per resolution: the requests it issued, with results
  outcome,           \* per resolution: how it ended
  arg,               \* the argument of a call of a function without awaits
  ret,               \* what that call returned or threw
  required,          \* RoleGuard: the `required` prop
  tokenValid,        \* RoleGuard: isJwtValid(getStoredToken())
  pathname,          \* RoleGuard: usePathname()
  checking,          \* RoleGuard: useState(true)
  gpc,               \* RoleGuard: the position of `run`
  me,                \* RoleGuard: what /api/v1/auth/me answered
  at,                \* RoleGuard: the `at` local of `run`
  cachedUser,        \* localStorage "vericred_user": the account type cached
  redirects,         \* RoleGuard: the router.replace calls issued
  bulk,              \* BulkUpload: its useState cells and abortRef
  validations,       \* BulkUpload: per file selection, its validateHeader call
  posts,             \* BulkUpload: per onUpload call, its request
  share,             \* the share dialog: its useState cells
  generations        \* the share dialog: per generateShare call, its request

vars == << route, ipfsData, ipfsLoading, ipfsError, ipfsResolvedUrl,
           ipfsFallbackUrls, activeCred, detailsOpen, response, calls, pc, rawIpfs, normalized, tryUrls, idx, ct,
           hung, log, outcome, arg, ret, required, tokenValid, pathname,
           checking, gpc, me, at, cachedUser, redirects, bulk, validations,
           posts, share, generations >>

guardVars == << required, tokenValid, pathname, checking, gpc, me, at,
                cachedUser, redirects >>

uploadVars == << bulk, validations, posts >>

shareVars == << share, generations >>

pageState == << ipfsData, ipfsLoading, ipfsError, ipfsResolvedUrl,
                ipfsFallbackUrls >>

\* the state only the credentials list and only the route handler have
otherState == << activeCred, detailsOpen, response >>

NullData == [t |-> "null"]
NullUrl  == <<>>
NoError  == "null"

ExhaustedMsg == "Unable to load IPFS content from public gateways."
LegacyExhaustedMsg == "Failed to fetch IPFS content (CORS or gateway error)."
DetailsExhaustedMsg ==
  "Failed to fetch IPFS content (CORS or gateway error). Consider using a backend proxy to avoid CORS."
\* NoLinkMsg with a fault: the message of the exhausted loop is reused
NoLinkMsgReused == DetailsExhaustedMsg
NoLinkMsg == "No IPFS link available for this credential"

NoCred == 0
NoResponse == [status |-> 0]

(***************************************************************************)
(* Inputs of the state machine.                                            *)
(***************************************************************************)
PtrCid      == <<"Q", "m">>
PtrUrl      == Str_https \o <<"h", "/", "m">>
PtrIpfsOnly == Str_ipfsScheme

\* ipfsStr of the effect: a trimmed, non-empty string
VerifyInputs == { JsString(PtrCid), JsString(PtrUrl), JsString(PtrIpfsOnly) }

\* ProxyReq with a fault: the first request goes to a gateway, not to the
\* same-origin proxy
ProxyReqDirect(src) ==
  [to |-> "gateway", url |-> <<pathGateways[1]>> \o src, res |-> "pending"]

\* the request log entries
ProxyReq(src) ==
  [to |-> "proxy", url |-> <<"/api/ipfs?src=">> \o src, res |-> "pending"]
GatewayReq(url) == [to |-> "gateway", url |-> url, res |-> "pending"]

\* the last entry of a log gets its result
Settle(l, res) == [l EXCEPT ![Len(l)].res = res]

\* what `await pr.json()` can give: it rejects (the body is not JSON), or an
\* envelope with ok false, or one with ok true, data parsed from JSON or left
\* as text, and resolvedUrl present or not
JsonResults ==
  { [thrown |-> TRUE, ok |-> FALSE, url |-> FALSE, shape |-> "null"],
    [thrown |-> FALSE, ok |-> FALSE, url |-> FALSE, shape |-> "null"] }
  \cup { [thrown |-> FALSE, ok |-> TRUE, url |-> u, shape |-> sh] :
           u \in BOOLEAN, sh \in {"json", "text"} }

\* the envelope of kind k the route handler answers with for src
Envelope(src, k) ==
  [ thrown |-> k.thrown, ok |-> k.ok,
    resolvedUrl |-> IF k.url THEN buildCandidates(normalize(JsString(src)))[1]
                    ELSE NullUrl,
    data |-> IF k.ok THEN [t |-> k.shape, of |-> src] ELSE NullData ]

\* the modules of the model: the verify page with the proxy hop (part_001),
\* src/app/verify/[uuid]/page.tsx, the credentials list, the route handler
Routes == {"verify", "legacy", "credentials", "api"}

\* the components as mounted, no resolution started
NoResolution ==
  /\ ipfsData = NullData
  /\ ipfsLoading = FALSE
  /\ ipfsError = NoError
  /\ ipfsResolvedUrl = NullUrl
  /\ ipfsFallbackUrls = <<>>
  /\ activeCred = NoCred
  /\ detailsOpen = FALSE
  /\ response = [r \in Res |-> NoResponse]
  /\ calls = 0
  /\ pc = [r \in Res |-> "idle"]
  /\ rawIpfs = [r \in Res |-> JsNull]
  /\ normalized = [r \in Res |-> <<>>]
  /\ tryUrls = [r \in Res |-> <<>>]
  /\ idx = [r \in Res |-> 0]
  /\ ct = [r \in Res |-> ""]
  /\ hung = [r \in Res |-> FALSE]
  /\ log = [r \in Res |-> <<>>]
  /\ outcome = [r \in Res |-> "none"]

\* no RoleGuard is mounted
NoGuard ==
  /\ required = "student"
  /\ tokenValid = FALSE
  /\ pathname = "/"
  /\ checking = TRUE
  /\ gpc = "unmounted"
  /\ me = "none"
  /\ at = "unknown"
  /\ cachedUser = "none"
  /\ redirects = <<>>

\* BulkUpload as mounted (bulk-upload.tsx 39-54)
NoUpload ==
  /\ bulk = [ file |-> "null", status |-> "idle", message |-> "",
              count |-> JsNull, headerOk |-> "null", progress |-> 0,
              abortRef |-> 0 ]
  /\ validations = <<>>
  /\ posts = <<>>

\* the share dialog as mounted (bulk-upload.tsx 723-727)
NoShare ==
  /\ share = [ shareOpen |-> FALSE, shareLoading |-> FALSE,
               shareError |-> "null", shareUrl |-> JsNull, shareFor |-> 0 ]
  /\ generations = <<>>

\* no call of a function without awaits is under way
NoArg == [t |-> "undefined"]
NoRet == [t |-> "none"]

Init ==
  /\ route \in Routes
  /\ NoResolution
  /\ NoGuard
  /\ NoUpload
  /\ NoShare
  /\ arg = NoArg
  /\ ret = NoRet

(***************************************************************************)
(* Steps every resolution is made of.  Each sets pc, hung, idx, ct, log    *)
(* and outcome of the resolution r.                                        *)
(***************************************************************************)
\* the end of a resolution: the call returns and its locals are gone
Finish(r, how) ==
  /\ pc' = [pc EXCEPT ![r] = "done"]
  /\ outcome' = [outcome EXCEPT ![r] = how]
  /\ hung' = [hung EXCEPT ![r] = FALSE]
  /\ idx' = [idx EXCEPT ![r] = 0]
  /\ ct' = [ct EXCEPT ![r] = ""]
  /\ log' = [log EXCEPT ![r] = <<>>]

\* the resolution is suspended at an await; the promise may never settle
Await(r, where) ==
  /\ pc' = [pc EXCEPT ![r] = where]
  /\ \E h \in BOOLEAN : hung' = [hung EXCEPT ![r] = h]
  /\ UNCHANGED outcome

\* RequestCandidate with a fault: every iteration requests the head of the
\* list
RequestCandidateHead(r, urls, i, l) ==
  /\ Await(r, "gwFetch")
  /\ idx' = [idx EXCEPT ![r] = i]
  /\ ct' = [ct EXCEPT ![r] = ""]
  /\ log' = [log EXCEPT ![r] = Append(l, GatewayReq(urls[1]))]

\* `await fetch(url)` of the loop, for candidate i of urls
RequestCandidate(r, urls, i, l) ==
  /\ Await(r, "gwFetch")
  /\ idx' = [idx EXCEPT ![r] = i]
  /\ ct' = [ct EXCEPT ![r] = ""]
  /\ log' = [log EXCEPT ![r] = Append(l, GatewayReq(urls[i]))]

\* `const ct = ...` and the await of the body read
ReadBody(r, c) ==
  /\ Await(r, "gwBody")
  /\ ct' = [ct EXCEPT ![r] = c]
  /\ UNCHANGED << idx, log >>

\* the ways a fetch of the proxy settles: rejected, status not OK, status OK
FetchOutcomes == {"reject", "notok", "ok"}

\* the ways a gateway fetch settles: rejected, status not OK, or OK with a
\* JSON-flavoured or another content type
GatewayOutcomes == {"reject", "notok", "json", "other"}

\* what a body read gives: it rejects, the text is JSON, the text is not JSON
BodyOutcomes == {"throw", "json", "text"}

\* `await r.json()` rejects on text that is not JSON; `await r.text()` with
\* JSON.parse in its own try does not
bodyThrows(c, b) == b = "throw" \/ (c = "json" /\ b = "text")

(***************************************************************************)
(* fetchIpfs of the verify page (part_001).                                *)
(***************************************************************************)
\* lines 161-184: build tryUrls, publish them, enter the loop
StartGateways(r, l) ==
  LET urls == clientCandidates(normalized[r])
  IN  /\ tryUrls' = [tryUrls EXCEPT ![r] = urls]
      /\ ipfsFallbackUrls' = urls
      /\ RequestCandidate(r, urls, 1, l)
      /\ UNCHANGED << ipfsData, ipfsLoading, ipfsError, ipfsResolvedUrl >>

\* `continue` / catch of the loop body: next candidate or lines 203-205
NextCandidate(r, l) ==
  /\ UNCHANGED tryUrls
  /\ IF idx[r] < Len(tryUrls[r])
     THEN /\ RequestCandidate(r, tryUrls[r], idx[r] + 1, l)
          /\ UNCHANGED pageState
     ELSE /\ ipfsError' = ExhaustedMsg
          /\ ipfsLoading' = FALSE
          /\ Finish(r, "exhausted")
          /\ UNCHANGED << ipfsData, ipfsResolvedUrl, ipfsFallbackUrls >>

\* lines 114-148: the call up to `await fetch(proxyUrl)`
FetchIpfs(r, raw) ==
  /\ route = "verify"
  /\ r = calls + 1
  /\ pc[r] = "idle"
  /\ calls' = calls + 1
  /\ rawIpfs' = [rawIpfs EXCEPT ![r] = raw]
  /\ UNCHANGED << route, arg, ret, guardVars, uploadVars, shareVars, otherState, tryUrls, ipfsFallbackUrls >>
  /\ IF ~Truthy(raw)
     THEN /\ Finish(r, "ignored")
          /\ UNCHANGED << ipfsData, ipfsLoading, ipfsError, ipfsResolvedUrl,
                          normalized >>
     ELSE /\ ipfsError' = NoError
          /\ ipfsData' = NullData
          /\ ipfsResolvedUrl' = NullUrl
          /\ normalized' = [normalized EXCEPT ![r] = normalize(raw)]
          /\ IF normalize(raw) = <<>>
             THEN /\ ipfsLoading' = FALSE
                  /\ Finish(r, "empty")
             ELSE /\ ipfsLoading' = TRUE
                  /\ Await(r, "proxyFetch")
                  /\ log' = [log EXCEPT ![r] = <<ProxyReq(normalize(raw))>>]
                  /\ UNCHANGED << idx, ct >>

\* ProxyResponse with a fault: a status that is not OK is reported as the
\* failure of the resolution instead of falling back to the gateways
ProxyResponseSurfaces(r) ==
  /\ route = "verify"
  /\ pc[r] = "proxyFetch"
  /\ ~hung[r]
  /\ UNCHANGED << route, arg, ret, guardVars, uploadVars, shareVars, otherState, calls, rawIpfs, normalized >>
  /\ \E o \in FetchOutcomes :
       IF o = "ok"
       THEN /\ Await(r, "proxyJson")
            /\ UNCHANGED << pageState, tryUrls, idx, ct, log >>
       ELSE IF o = "notok"
       THEN /\ ipfsError' = ExhaustedMsg
            /\ ipfsLoading' = FALSE
            /\ Finish(r, "exhausted")
            /\ UNCHANGED << ipfsData, ipfsResolvedUrl, ipfsFallbackUrls, tryUrls >>
       ELSE StartGateways(r, Settle(log[r], "failed"))

\* lines 148-149: the proxy fetch settles
ProxyResponse(r) ==
  /\ route = "verify"
  /\ pc[r] = "proxyFetch"
  /\ ~hung[r]
  /\ UNCHANGED << route, arg, ret, guardVars, uploadVars, shareVars, otherState, calls, rawIpfs, normalized >>
  /\ \E o \in FetchOutcomes :
       IF o = "ok"
       THEN /\ Await(r, "proxyJson")
            /\ UNCHANGED << pageState, tryUrls, idx, ct, log >>
       ELSE StartGateways(r, Settle(log[r], "failed"))

\* lines 149-151: the proxy answer is taken
proxyAccepted(p) == ~p.thrown /\ p.ok

\* ProxyJson with a fault: the `return` of line 156 is missing, the accepted
\* envelope is followed by the gateway loop
ProxyJsonFallsThrough(r) ==
  /\ route = "verify"
  /\ pc[r] = "proxyJson"
  /\ ~hung[r]
  /\ UNCHANGED << route, arg, ret, guardVars, uploadVars, shareVars, otherState, calls, rawIpfs, normalized >>
  /\ \E k \in JsonResults :
       IF proxyAccepted(k)
       THEN LET urls == clientCandidates(normalized[r])
            IN  /\ ipfsData' = Envelope(normalized[r], k).data
                /\ ipfsResolvedUrl' = Envelope(normalized[r], k).resolvedUrl
                /\ ipfsError' = NoError
                /\ ipfsLoading' = FALSE
                /\ tryUrls' = [tryUrls EXCEPT ![r] = urls]
                /\ ipfsFallbackUrls' = urls
                /\ RequestCandidate(r, urls, 1, Settle(log[r], "ok"))
       ELSE StartGateways(r, Settle(log[r], "failed"))

\* lines 150-159: `await pr.json()` settles
ProxyJson(r) ==
  /\ route = "verify"
  /\ pc[r] = "proxyJson"
  /\ ~hung[r]
  /\ UNCHANGED << route, arg, ret, guardVars, uploadVars, shareVars, otherState, calls, rawIpfs, normalized >>
  /\ \E k \in JsonResults :
       IF proxyAccepted(k)
       THEN /\ ipfsData' = Envelope(normalized[r], k).data
            /\ ipfsResolvedUrl' = Envelope(normalized[r], k).resolvedUrl
            /\ ipfsError' = NoError
            /\ ipfsLoading' = FALSE
            /\ Finish(r, "proxy")
            /\ UNCHANGED << ipfsFallbackUrls, tryUrls >>
       ELSE StartGateways(r, Settle(log[r], "failed"))

\* resolvedSource with a fault: the head of the list instead of the `url`
\* of the iteration
resolvedSourceFirst(r) == tryUrls[r][1]

\* line 198: the URL handed to setIpfsResolvedUrl, the `url` of the iteration
resolvedSource(r) == tryUrls[r][idx[r]]

\* lines 374-378: the manual fallback links rendered with the error
fallbackLinks(urls) == SubSeq(urls, 1, IF Len(urls) < 4 THEN Len(urls) ELSE 4)

\* lines 184-186: a gateway fetch settles
GatewayResponse(r) ==
  /\ route = "verify"
  /\ pc[r] = "gwFetch"
  /\ ~hung[r]
  /\ UNCHANGED << route, arg, ret, guardVars, uploadVars, shareVars, otherState, calls, rawIpfs, normalized >>
  /\ \E o \in GatewayOutcomes :
       IF o \in {"json", "other"}
       THEN /\ ReadBody(r, o)
            /\ UNCHANGED << pageState, tryUrls >>
       ELSE NextCandidate(r, Settle(log[r], "failed"))

\* lines 187-201: `await r.json()` / `await r.text()` settles
GatewayBody(r) ==
  /\ route = "verify"
  /\ pc[r] = "gwBody"
  /\ ~hung[r]
  /\ UNCHANGED << route, arg, ret, guardVars, uploadVars, shareVars, otherState, calls, rawIpfs, normalized >>
  /\ \E b \in BodyOutcomes :
       IF bodyThrows(ct[r], b)
       THEN NextCandidate(r, Settle(log[r], "failed"))
       ELSE /\ ipfsData' = [t |-> IF b = "json" THEN "json" ELSE "content",
                            of |-> normalized[r]]
            /\ ipfsResolvedUrl' = resolvedSource(r)
            /\ ipfsLoading' = FALSE
            /\ Finish(r, "gateway")
            /\ UNCHANGED << ipfsError, ipfsFallbackUrls, tryUrls >>

(***************************************************************************)
(* fetchIpfs of src/app/verify/[uuid]/page.tsx: gateways only.             *)
(***************************************************************************)
\* `continue` / catch of the loop body: next candidate or the lines after
\* the loop (page.tsx 162-164, bulk-upload.tsx 967-973)
LegacyNextCandidate(r, l, msg) ==
  /\ UNCHANGED tryUrls
  /\ IF idx[r] < Len(tryUrls[r])
     THEN /\ RequestCandidate(r, tryUrls[r], idx[r] + 1, l)
          /\ UNCHANGED pageState
     ELSE /\ ipfsError' = msg
          /\ ipfsLoading' = FALSE
          /\ Finish(r, "exhausted")
          /\ UNCHANGED << ipfsData, ipfsResolvedUrl, ipfsFallbackUrls >>

\* lines 113-143: the call up to the first `await fetch(url)`
LegacyFetchIpfs(r, raw) ==
  /\ route = "legacy"
  /\ r = calls + 1
  /\ pc[r] = "idle"
  /\ calls' = calls + 1
  /\ rawIpfs' = [rawIpfs EXCEPT ![r] = raw]
  /\ UNCHANGED << route, arg, ret, guardVars, uploadVars, shareVars, otherState, ipfsFallbackUrls >>
  /\ IF ~Truthy(raw)
     THEN /\ Finish(r, "ignored")
          /\ UNCHANGED << ipfsData, ipfsLoading, ipfsError, ipfsResolvedUrl,
                          normalized, tryUrls >>
     ELSE LET n    == normalizeLegacy(raw.v)
              urls == legacyCandidates(n)
          IN  /\ normalized' = [normalized EXCEPT ![r] = n]
              /\ tryUrls' = [tryUrls EXCEPT ![r] = urls]
              /\ ipfsLoading' = TRUE
              /\ ipfsError' = NoError
              /\ ipfsData' = NullData
              /\ ipfsResolvedUrl' = NullUrl
              /\ RequestCandidate(r, urls, 1, <<>>)

\* lines 143-145: a gateway fetch settles
LegacyGatewayResponse(r) ==
  /\ route = "legacy"
  /\ pc[r] = "gwFetch"
  /\ ~hung[r]
  /\ UNCHANGED << route, arg, ret, guardVars, uploadVars, shareVars, otherState, calls, rawIpfs, normalized >>
  /\ \E o \in GatewayOutcomes :
       IF o \in {"json", "other"}
       THEN /\ ReadBody(r, o)
            /\ UNCHANGED << pageState, tryUrls >>
       ELSE LegacyNextCandidate(r, Settle(log[r], "failed"), LegacyExhaustedMsg)

\* lines 146-160: `await r.json()` / `await r.text()` settles
LegacyGatewayBody(r) ==
  /\ route = "legacy"
  /\ pc[r] = "gwBody"
  /\ ~hung[r]
  /\ UNCHANGED << route, arg, ret, guardVars, uploadVars, shareVars, otherState, calls, rawIpfs, normalized >>
  /\ \E b \in BodyOutcomes :
       IF bodyThrows(ct[r], b)
       THEN LegacyNextCandidate(r, Settle(log[r], "failed"), LegacyExhaustedMsg)
       ELSE /\ ipfsData' = [t |-> IF b = "json" THEN "json" ELSE "content",
                            of |-> normalized[r]]
            /\ ipfsResolvedUrl' = tryUrls[r][idx[r]]
            /\ ipfsLoading' = FALSE
            /\ Finish(r, "gateway")
            /\ UNCHANGED << ipfsError, ipfsFallbackUrls, tryUrls >>

(***************************************************************************)
(* openDetails and closeDetails of MintedCredentialsSummary.  The list     *)
(* buttons lie under the backdrop of the open dialog, so a credential is   *)
(* opened while no dialog is open.  walletsOpen and additionalOpen are     *)
(* toggles of the dialog that no resolution reads or writes.               *)
(***************************************************************************)
\* the normalized credentials of the list: ipfs_link is present when truthy
Creds ==
  { [id |-> 1, ipfs_link |-> JsString(PtrCid)],
    [id |-> 2, ipfs_link |-> JsString(PtrUrl)],
    [id |-> 3, ipfs_link |-> JsString(PtrIpfsOnly)],
    [id |-> 4, ipfs_link |-> JsUndefined],
    [id |-> 5, ipfs_link |-> JsNumber(5)] }

\* lines 885-939: the call up to the first `await fetch(url)`
OpenDetails(r, c) ==
  /\ route = "credentials"
  /\ ~detailsOpen
  /\ r = calls + 1
  /\ pc[r] = "idle"
  /\ calls' = calls + 1
  /\ rawIpfs' = [rawIpfs EXCEPT ![r] = c.ipfs_link]
  /\ activeCred' = c.id
  /\ detailsOpen' = TRUE
  /\ ipfsData' = NullData
  /\ UNCHANGED << route, arg, ret, guardVars, uploadVars, shareVars, response, ipfsFallbackUrls, ipfsResolvedUrl >>
  /\ IF ~Truthy(c.ipfs_link)
     THEN /\ ipfsError' = NoLinkMsg
          /\ Finish(r, "empty")
          /\ UNCHANGED << ipfsLoading, normalized, tryUrls >>
     ELSE IF normalizeLegacyThrows(c.ipfs_link)
     THEN /\ ipfsError' = NoError
          /\ Finish(r, "threw")
          /\ UNCHANGED << ipfsLoading, normalized, tryUrls >>
     ELSE LET n    == normalizeLegacy(c.ipfs_link.v)
              urls == legacyCandidates(n)
          IN  /\ ipfsError' = NoError
              /\ normalized' = [normalized EXCEPT ![r] = n]
              /\ tryUrls' = [tryUrls EXCEPT ![r] = urls]
              /\ ipfsLoading' = TRUE
              /\ RequestCandidate(r, urls, 1, <<>>)

\* lines 939-946: a gateway fetch settles
DetailsGatewayResponse(r) ==
  /\ route = "credentials"
  /\ pc[r] = "gwFetch"
  /\ ~hung[r]
  /\ UNCHANGED << route, arg, ret, guardVars, uploadVars, shareVars, otherState, calls, rawIpfs, normalized >>
  /\ \E o \in GatewayOutcomes :
       IF o \in {"json", "other"}
       THEN /\ ReadBody(r, o)
            /\ UNCHANGED << pageState, tryUrls >>
       ELSE LegacyNextCandidate(r, Settle(log[r], "failed"), DetailsExhaustedMsg)

\* lines 946-973: `await r.json()` / `await r.text()` settles
DetailsGatewayBody(r) ==
  /\ route = "credentials"
  /\ pc[r] = "gwBody"
  /\ ~hung[r]
  /\ UNCHANGED << route, arg, ret, guardVars, uploadVars, shareVars, otherState, calls, rawIpfs, normalized >>
  /\ \E b \in BodyOutcomes :
       IF bodyThrows(ct[r], b)
       THEN LegacyNextCandidate(r, Settle(log[r], "failed"), DetailsExhaustedMsg)
       ELSE /\ ipfsData' = [t |-> IF b = "json" THEN "json" ELSE "content",
                            of |-> normalized[r]]
            /\ ipfsLoading' = FALSE
            /\ Finish(r, "gateway")
            /\ UNCHANGED << ipfsError, ipfsResolvedUrl, ipfsFallbackUrls,
                            tryUrls >>

\* lines 976-984
CloseDetails ==
  /\ route = "credentials"
  /\ detailsOpen
  /\ detailsOpen' = FALSE
  /\ activeCred' = NoCred
  /\ ipfsData' = NullData
  /\ ipfsError' = NoError
  /\ ipfsLoading' = FALSE
  /\ UNCHANGED << route, arg, ret, guardVars, uploadVars, shareVars, ipfsResolvedUrl, ipfsFallbackUrls, response, calls, pc,
                  rawIpfs, normalized, tryUrls, idx, ct, hung, log, outcome >>

(***************************************************************************)
(* GET of the /api/ipfs route handler (part_002).                          *)
(***************************************************************************)
\* the src query parameter of a request; a missing one reads as ""
ApiInputs == { PtrCid, PtrUrl, PtrIpfsOnly, <<>> }

\* the handler returns
Respond(r, resp, how) ==
  /\ response' = [response EXCEPT ![r] = resp]
  /\ Finish(r, how)

\* `continue` / catch of the loop body: next candidate or lines 300-307
ApiNextCandidate(r, l) ==
  /\ UNCHANGED tryUrls
  /\ IF idx[r] < Len(tryUrls[r])
     THEN /\ RequestCandidate(r, tryUrls[r], idx[r] + 1, l)
          /\ UNCHANGED response
     ELSE Respond(r, [status |-> 502, ok |-> FALSE, candidates |-> tryUrls[r]],
                  "exhausted")

\* lines 256-271: the handler up to the first `await fetchWithTimeout(url)`
GET(r, raw) ==
  /\ route = "api"
  /\ r = calls + 1
  /\ pc[r] = "idle"
  /\ calls' = calls + 1
  /\ rawIpfs' = [rawIpfs EXCEPT ![r] = JsString(raw)]
  /\ normalized' = [normalized EXCEPT ![r] = normalize(JsString(raw))]
  /\ UNCHANGED << route, arg, ret, guardVars, uploadVars, shareVars, pageState, activeCred, detailsOpen >>
  /\ IF normalize(JsString(raw)) = <<>>
     THEN /\ Respond(r, [status |-> 400, ok |-> FALSE], "empty")
          /\ UNCHANGED tryUrls
     ELSE LET urls == buildCandidates(normalize(JsString(raw)))
          IN  /\ tryUrls' = [tryUrls EXCEPT ![r] = urls]
              /\ RequestCandidate(r, urls, 1, <<>>)
              /\ UNCHANGED response

\* lines 240-254, 271-273: the fetch of fetchWithTimeout settles in time
ApiGatewayResponse(r) ==
  /\ route = "api"
  /\ pc[r] = "gwFetch"
  /\ ~hung[r]
  /\ UNCHANGED << route, arg, ret, guardVars, uploadVars, shareVars, pageState, activeCred, detailsOpen, calls, rawIpfs,
                  normalized >>
  /\ \E o \in GatewayOutcomes :
       IF o \in {"json", "other"}
       THEN /\ ReadBody(r, o)
            /\ UNCHANGED << response, tryUrls >>
       ELSE ApiNextCandidate(r, Settle(log[r], "failed"))

\* lines 241-242: the timer of fetchWithTimeout fires and aborts the fetch
ApiFetchTimeout(r) ==
  /\ route = "api"
  /\ pc[r] = "gwFetch"
  /\ hung[r]
  /\ UNCHANGED << route, arg, ret, guardVars, uploadVars, shareVars, pageState, activeCred, detailsOpen, calls, rawIpfs,
                  normalized >>
  /\ ApiNextCandidate(r, Settle(log[r], "failed"))

\* lines 274-297: `await r.json()` / `await r.text()` settles; the timer was
\* cleared when the fetch settled
ApiGatewayBody(r) ==
  /\ route = "api"
  /\ pc[r] = "gwBody"
  /\ ~hung[r]
  /\ UNCHANGED << route, arg, ret, guardVars, uploadVars, shareVars, pageState, activeCred, detailsOpen, calls, rawIpfs,
                  normalized >>
  /\ \E b \in BodyOutcomes :
       IF bodyThrows(ct[r], b)
       THEN ApiNextCandidate(r, Settle(log[r], "failed"))
       ELSE /\ Respond(r, [status |-> 200, ok |-> TRUE,
                           resolvedUrl |-> tryUrls[r][idx[r]],
                           data |-> [t |-> b, of |-> normalized[r]]],
                       "gateway")
            /\ UNCHANGED tryUrls

Next ==
  \/ \E r \in Res, raw \in VerifyInputs : FetchIpfs(r, raw)
  \/ \E r \in Res : ProxyResponse(r)
  \/ \E r \in Res : ProxyJson(r)
  \/ \E r \in Res : GatewayResponse(r)
  \/ \E r \in Res : GatewayBody(r)
  \/ \E r \in Res, raw \in VerifyInputs : LegacyFetchIpfs(r, raw)
  \/ \E r \in Res : LegacyGatewayResponse(r)
  \/ \E r \in Res : LegacyGatewayBody(r)
  \/ \E r \in Res, c \in Creds : OpenDetails(r, c)
  \/ \E r \in Res : DetailsGatewayResponse(r)
  \/ \E r \in Res : DetailsGatewayBody(r)
  \/ CloseDetails
  \/ \E r \in Res, raw \in ApiInputs : GET(r, raw)
  \/ \E r \in Res : ApiGatewayResponse(r)
  \/ \E r \in Res : ApiFetchTimeout(r)
  \/ \E r \in Res : ApiGatewayBody(r)

Spec == Init /\ [][Next]_vars

\* the continuations and timers the event loop runs once they are enabled;
\* the calls themselves (fetchIpfs, openDetails, closeDetails, GET) are
\* started by the user or by a client and need not happen
Continue ==
  \E r \in Res :
    \/ ProxyResponse(r) \/ ProxyJson(r) \/ GatewayResponse(r) \/ GatewayBody(r)
    \/ LegacyGatewayResponse(r) \/ LegacyGatewayBody(r)
    \/ DetailsGatewayResponse(r) \/ DetailsGatewayBody(r)
    \/ ApiGatewayResponse(r) \/ ApiFetchTimeout(r) \/ ApiGatewayBody(r)

FairSpec == Spec /\ WF_vars(Continue)

(***************************************************************************)
(* The functions without awaits, called on their own: the argument is      *)
(* drawn when the behaviour starts, the call gives ret.                    *)
(***************************************************************************)
resolutionVars ==
  << ipfsData, ipfsLoading, ipfsError, ipfsResolvedUrl, ipfsFallbackUrls,
     activeCred, detailsOpen, response, calls, pc, rawIpfs, normalized,
     tryUrls, idx, ct, hung, log, outcome >>

Returned(v) == [t |-> "returned", v |-> v]
Thrown == [t |-> "thrown"]

\* the pieces pointer strings are made of
Pieces ==
  { Str_ipfsScheme, Str_slashIpfs, Str_ipfsPath, Str_ar, Str_https,
    <<"I", "P", "F", "S", ":", "/", "/">>, <<" ">>, <<"Q", "m">>, <<"/", "p">> }

\* the strings of at most n pieces
RECURSIVE Strings(_)
Strings(n) ==
  IF n = 0 THEN {<<>>}
  ELSE LET S == Strings(n - 1) IN S \cup { s \o p : s \in S, p \in Pieces }

\* the scalar values of an upstream record
Scalars ==
  { JsString(<<>>), JsString(<<" ">>), JsString(PtrCid),
    JsString(Str_ipfsScheme \o PtrCid), JsNull, JsUndefined, JsNumber(0),
    JsNumber(5) }

\* keys of the objects of an upstream record; "credential" is no key of the
\* `keys` array
ObjectKeys == {"ipfs_link", "tokenURI", "cid", "credential"}

\* the values of an upstream record nested at most d deep
RECURSIVE RawPointers(_)
RawPointers(d) ==
  IF d = 0 THEN Scalars
  ELSE LET P == RawPointers(d - 1)
       IN  P \cup { JsArray(<<>>) }
             \cup { JsArray(<<a>>) : a \in P }
             \cup { JsArray(<<a, b>>) : a \in Scalars, b \in P }
             \cup { JsObject(k :> a) : k \in ObjectKeys, a \in P }
             \cup { JsObject(k :> a @@ l :> b) :
                      k \in ObjectKeys, l \in ObjectKeys,
                      a \in Scalars, b \in Scalars }

\* a content id the pattern of isStringCid matches: Qm and 44 more characters
LongCid == <<"Q", "m">> \o [i \in 1..44 |-> "a"]

\* what an upstream record holds under cid, hash or "/"
CidScalars ==
  { JsString(<<"h", "e", "l", "l", "o">>), JsString(LongCid),
    JsString(Str_ipfsScheme \o PtrCid), JsString(<<" ">>),
    JsString(<<" ">> \o PtrCid), JsNumber(5), JsNull }

CidKeys == {"cid", "hash", "/"}

\* the objects that look like a content id container, alone or beside a
\* pointer field
CidContainers ==
  { JsObject(k :> a) : k \in CidKeys, a \in CidScalars }
    \cup { JsObject(k :> a @@ l :> b) :
             k \in CidKeys, l \in CidKeys, a \in CidScalars, b \in CidScalars }
    \cup { JsObject("tokenURI" :> a @@ k :> b) :
             k \in CidKeys, a \in CidScalars, b \in CidScalars }

\* the values handed to extractIpfsLink
ExtractInputs ==
  RawPointers(MaxDepth) \cup CidContainers
    \cup { JsArray(<<a, b>>) : a \in CidScalars, b \in CidScalars }

\* the raw pointer values handed to normalize
NormalizeInputs ==
  { JsString(s) : s \in Strings(MaxPieces) } \cup RawPointers(MaxDepth)

(***************************************************************************)
(* Dates on display: formatDate of the verify pages (part_001 269-273,     *)
(* page.tsx 221-225) and the inline expression of the credentials list     *)
(* (bulk-upload.tsx 1276-1278, 1339-1347, 1464-1492).  A date string is a  *)
(* sequence of its parts.                                                  *)
(***************************************************************************)
\* the parts of a date string, and each as toLocaleDateString prints it
DateYears == {"2024", "1999"}
DateMonths == [p \in {"01", "12"} |-> IF p = "01" THEN "1" ELSE p]
DateDays == [p \in {"05", "15"} |-> IF p = "05" THEN "5" ELSE p]

\* `new Date(d)` for a string: year-month-day parses, anything else of the
\* inputs below gives a date whose getTime() is NaN
newDate(d) ==
  IF /\ Len(d) = 5 /\ d[1] \in DateYears /\ d[2] = "-"
     /\ d[3] \in DOMAIN DateMonths /\ d[4] = "-" /\ d[5] \in DOMAIN DateDays
  THEN [valid |-> TRUE, y |-> d[1], m |-> d[3], d |-> d[5]]
  ELSE [valid |-> FALSE]

\* dt.toLocaleDateString()
toLocaleDateString(dt) ==
  IF dt.valid THEN << DateMonths[dt.m], "/", DateDays[dt.d], "/", dt.y >>
  ELSE <<"Invalid Date">>

\* formatDate (part_001 269-273)
formatDate(d) ==
  IF ~Truthy(d) THEN EmDash
  ELSE IF ~newDate(d.v).valid THEN d
  ELSE JsString(toLocaleDateString(newDate(d.v)))

\* value ? new Date(value).toLocaleDateString() : "—" (bulk-upload.tsx
\* 1339-1347)
listDate(d) ==
  IF Truthy(d) THEN JsString(toLocaleDateString(newDate(d.v))) ELSE EmDash

\* the values a date field of a record holds: missing, empty, a date, a
\* month out of range, words
DateInputs ==
  { JsUndefined, JsNull, JsString(<<>>), JsString(<<"soon">>),
    JsString(<<"2024", "-", "13", "-", "15">>),
    JsString(<<"15", "-", "01", "-", "2024">>) }
    \cup { JsString(<<y, "-", m, "-", d>>) :
             y \in DateYears, m \in DOMAIN DateMonths, d \in DOMAIN DateDays }

\* the functions called on their own: normalize of fetchIpfs and of the route
\* handler, normalize of openDetails, extractIpfsLink
\* and the effect that finds the pointer (part_001 235-254)
\* and the two candidate lists: buildCandidates of the route handler, tryUrls
\* of fetchIpfs
\* and a field rendered with getAttr, and the two status mappings
PureRoutes ==
  { "normalize", "openDetails.normalize", "extractIpfsLink", "effect",
    "buildCandidates", "tryUrls", "getAttr", "credentialInfo", "submit",
    "formatDate", "listDate" }

\* the pieces upstream status strings are made of
StatusPieces ==
  { "VERIFIED", "VALID", "SUCCESS", "NOT_FOUND", "MISSING", "NO_MATCH",
    "TAMPER", "ED", "INVALID", "MANIPULATED", "AUTHENTIC", "ORIGINAL",
    "FORGED", "FAKE", "UNKNOWN", "NO_RECORD", "MISMATCH", "PENDING",
    "REVOKED", "_", "verified", "tamper", "ed", "pending" }

RECURSIVE StatusStrings(_)
StatusStrings(n) ==
  IF n = 0 THEN { <<>> }
  ELSE LET S == StatusStrings(n - 1)
       IN  S \cup { Append(str, w) : str \in S, w \in StatusPieces }

\* the bodies of a successful response: status and result present or not
StatusInputs ==
  { JsObject("status" :> a @@ "result" :> b) :
      a \in { JsUndefined } \cup { JsString(x) : x \in StatusStrings(MaxStatusPieces) },
      b \in { JsUndefined, JsString(<<"VALID">>), JsString(<<"REVOKED">>) } }

\* the labels looked up
Labels == { <<"GPA">>, <<"Major">> }

\* entries of an attributes list
AttrEntries ==
  { JsObject("trait_type" :> JsString(l) @@ "value" :> v) :
      l \in Labels,
      v \in { JsString(<<"3.8">>), JsString(<<>>), JsNumber(0), JsNull } }
  \cup { JsObject("traitType" :> JsString(<<"GPA">>) @@ "value" :> v) :
           v \in { JsString(<<"3.9">>), JsNumber(0) } }
  \cup { JsObject("trait_type" :> JsString(<<"gpa">>)
                    @@ "value" :> JsString(<<"3.7">>)),
         JsObject("trait_type" :> JsString(<<"Major">>)
                    @@ "traitType" :> JsString(<<"GPA">>)
                    @@ "value" :> JsString(<<"3.6">>)),
         JsNull }

\* the lists of at most n entries
RECURSIVE AttrLists(_)
AttrLists(n) ==
  IF n = 0 THEN { <<>> }
  ELSE LET L == AttrLists(n - 1)
       IN  L \cup { Append(l, e) : l \in L, e \in AttrEntries }

\* the flat fields of a metadata document
FlatFields ==
  { f \in [ {"gpa", "score", "major"} ->
              { JsUndefined, JsString(<<"3.5">>) } ] :
      f["major"] = JsUndefined \/ f["score"] = JsUndefined }

\* ipfsData: a document with or without attributes, a document whose
\* attributes field is no list, a bare text, null
Metadata ==
  { JsObject(f) : f \in FlatFields }
  \cup { JsObject(("attributes" :> JsArray(l)) @@ f) :
           l \in AttrLists(MaxAttrs), f \in FlatFields }
  \cup { JsObject("attributes" :> JsString(<<"GPA">>)), JsString(<<"text">>),
         JsNull }

GetAttrInputs == { [data |-> d, key |-> k] : d \in Metadata, k \in Labels }

\* the pointers a candidate list is built for: the values normalize returns
\* that are not empty
NormalizedInputs == { normalize(v) : v \in NormalizeInputs } \ { <<>> }

\* the bodies of the credential-info response: an object, its values nested
EffectInputs ==
  { JsObject(k :> a) : k \in ObjectKeys, a \in RawPointers(MaxDepth) }

\* the effect did not call fetchIpfs
Skipped == [t |-> "skipped"]

PureInit ==
  /\ route \in PureRoutes
  /\ NoResolution
  /\ NoGuard
  /\ NoUpload
  /\ NoShare
  /\ arg \in CASE route = "normalize" -> NormalizeInputs
             [] route = "openDetails.normalize" ->
                  { v \in NormalizeInputs : Truthy(v) }
             [] route = "effect" -> EffectInputs
             [] route \in {"buildCandidates", "tryUrls"} -> NormalizedInputs
             [] route = "getAttr" -> GetAttrInputs
             [] route \in {"credentialInfo", "submit"} -> StatusInputs
             [] route = "extractIpfsLink" -> ExtractInputs
             [] route \in {"formatDate", "listDate"} -> DateInputs
             [] OTHER -> RawPointers(MaxDepth)
  /\ ret = NoRet

\* a call of normalize (part_001 123-137, part_002 202-213)
NormalizeCall ==
  /\ route = "normalize"
  /\ ret = NoRet
  /\ ret' = Returned(normalize(arg))
  /\ UNCHANGED << route, arg, resolutionVars, guardVars, uploadVars,
                  shareVars >>

\* a call of normalize of openDetails with the truthy rawIpfs
\* (bulk-upload.tsx 908-915)
DetailsNormalizeCall ==
  /\ route = "openDetails.normalize"
  /\ ret = NoRet
  /\ ret' = IF normalizeLegacyThrows(arg) THEN Thrown
            ELSE IF arg.t = "string" THEN Returned(normalizeLegacy(arg.v))
            ELSE Returned(arg)
  /\ UNCHANGED << route, arg, resolutionVars, guardVars, uploadVars,
                  shareVars >>

\* a call of extractIpfsLink (part_001 276-333)
ExtractCall ==
  /\ route = "extractIpfsLink"
  /\ ret = NoRet
  /\ ret' = Returned(extractIpfsLink(arg))
  /\ UNCHANGED << route, arg, resolutionVars, guardVars, uploadVars,
                  shareVars >>

\* lines 235-254 and 123-139: the pointer found in the response body and the
\* normalized value fetchIpfs works with, if it is called
EffectCall ==
  /\ route = "effect"
  /\ ret = NoRet
  /\ ret' = IF ipfsStrOf(arg) # <<>>
            THEN Returned(normalize(JsString(ipfsStrOf(arg))))
            ELSE Skipped
  /\ UNCHANGED << route, arg, resolutionVars, guardVars, uploadVars,
                  shareVars >>

\* a call of buildCandidates (part_002 215-238)
BuildCandidatesCall ==
  /\ route = "buildCandidates"
  /\ ret = NoRet
  /\ ret' = Returned(buildCandidates(arg))
  /\ UNCHANGED << route, arg, resolutionVars, guardVars, uploadVars,
                  shareVars >>

\* tryUrls of fetchIpfs is built (part_001 161-177)
TryUrlsCall ==
  /\ route = "tryUrls"
  /\ ret = NoRet
  /\ ret' = Returned(clientCandidates(arg))
  /\ UNCHANGED << route, arg, resolutionVars, guardVars, uploadVars,
                  shareVars >>

\* a field of the metadata card is rendered (part_001 475, 484-487)
GetAttrCall ==
  /\ route = "getAttr"
  /\ ret = NoRet
  /\ ret' = Returned(displayed(arg.data, arg.key))
  /\ UNCHANGED << route, arg, resolutionVars, guardVars, uploadVars,
                  shareVars >>

\* the status mapping of the credential-info effects
CredentialInfoStatus ==
  /\ route = "credentialInfo"
  /\ ret = NoRet
  /\ ret' = Returned(mapStatus(rawStatusOf(arg)))
  /\ UNCHANGED << route, arg, resolutionVars, guardVars, uploadVars,
                  shareVars >>

\* the status mapping of submit
SubmitStatus ==
  /\ route = "submit"
  /\ ret = NoRet
  /\ ret' = Returned(submitStatus(rawStatusOf(arg)))
  /\ UNCHANGED << route, arg, resolutionVars, guardVars, uploadVars,
                  shareVars >>

\* a date label of the verify page is rendered (part_001 508-525)
FormatDateCall ==
  /\ route = "formatDate"
  /\ ret = NoRet
  /\ ret' = Returned(formatDate(arg))
  /\ UNCHANGED << route, arg, resolutionVars, guardVars, uploadVars,
                  shareVars >>

\* a date label of the credentials list is rendered (bulk-upload.tsx
\* 1339-1347, 1464-1492)
ListDateCall ==
  /\ route = "listDate"
  /\ ret = NoRet
  /\ ret' = Returned(listDate(arg))
  /\ UNCHANGED << route, arg, resolutionVars, guardVars, uploadVars,
                  shareVars >>

PureNext ==
  \/ FormatDateCall
  \/ ListDateCall
  \/ CredentialInfoStatus
  \/ SubmitStatus
  \/ GetAttrCall
  \/ NormalizeCall
  \/ DetailsNormalizeCall
  \/ ExtractCall
  \/ EffectCall
  \/ BuildCandidatesCall
  \/ TryUrlsCall

PureSpec == PureInit /\ [][PureNext]_vars

(***************************************************************************)
(* RoleGuard (src/components/auth/role-guard.tsx): the effect `run` of a   *)
(* guard mounted on a page.                                                *)
(***************************************************************************)
Roles == {"student", "university"}

\* the pages a guard is mounted on or sends to
Pages ==
  { "/", "/dashboard", "/university", "/role-selection", "/dashboard/credentials",
    "/university/issue" }

\* me?.account_type of an answer: a role, another string, or missing
AccountTypes == { "student", "university", "admin", "missing" }

GuardInit ==
  /\ route = "RoleGuard"
  /\ NoResolution
  /\ NoUpload
  /\ NoShare
  /\ arg = NoArg
  /\ ret = NoRet
  /\ required \in Roles
  /\ tokenValid \in BOOLEAN
  /\ pathname \in Pages
  /\ checking = TRUE
  /\ gpc = "mounted"
  /\ me = "none"
  /\ at = "unknown"
  /\ cachedUser \in { "none", "student" }
  /\ redirects = <<>>

\* decide with a fault: a student on a university page is sent to the
\* university area
decideSameArea(req, a, path) ==
  IF a = "unknown"
  THEN IF path # "/role-selection" THEN <<"/role-selection">> ELSE <<>>
  ELSE IF req = "student" /\ a # "student"
  THEN IF a = "university" THEN <<"/university">> ELSE <<"/role-selection">>
  ELSE IF req = "university" /\ a # "university"
  THEN IF a = "student" THEN <<"/university">> ELSE <<"/role-selection">>
  ELSE <<>>

\* lines 56-73: the router.replace call the account type leads to, if any
decide(req, a, path) ==
  IF a = "unknown"
  THEN IF path # "/role-selection" THEN <<"/role-selection">> ELSE <<>>
  ELSE IF req = "student" /\ a # "student"
  THEN IF a = "university" THEN <<"/university">> ELSE <<"/role-selection">>
  ELSE IF req = "university" /\ a # "university"
  THEN IF a = "student" THEN <<"/dashboard">> ELSE <<"/role-selection">>
  ELSE <<>>

\* lines 56-73 with setChecking(false): `run` ends
GuardDecide(a) ==
  /\ at' = a
  /\ redirects' = redirects \o decide(required, a, pathname)
  /\ checking' = FALSE
  /\ gpc' = "done"

\* lines 25-37: `run` up to `await fetch(".../api/v1/auth/me")`
GuardRun ==
  /\ route = "RoleGuard"
  /\ gpc = "mounted"
  /\ UNCHANGED << route, arg, ret, resolutionVars, uploadVars, shareVars,
                  required, tokenValid,
                  pathname, me, at, cachedUser >>
  /\ IF ~tokenValid
     THEN /\ redirects' = IF pathname # "/" THEN Append(redirects, "/")
                          ELSE redirects
          /\ checking' = FALSE
          /\ gpc' = "done"
     ELSE /\ gpc' = "me"
          /\ UNCHANGED << checking, redirects >>

\* lines 35-38, 54-60: the fetch settles; a rejection or a status that is
\* not OK leaves `at` unknown
GuardMeResponse ==
  /\ route = "RoleGuard"
  /\ gpc = "me"
  /\ UNCHANGED << route, arg, ret, resolutionVars, uploadVars, shareVars,
                  required, tokenValid,
                  pathname, cachedUser >>
  /\ \E o \in FetchOutcomes :
       IF o = "ok"
       THEN /\ gpc' = "json"
            /\ UNCHANGED << me, at, checking, redirects >>
       ELSE /\ me' = "failed"
            /\ GuardDecide("unknown")

\* lines 39-73: `await res.json()` settles; localStorage.setItem may throw
GuardMeJson ==
  /\ route = "RoleGuard"
  /\ gpc = "json"
  /\ UNCHANGED << route, arg, ret, resolutionVars, uploadVars, shareVars,
                  required, tokenValid,
                  pathname >>
  /\ \/ /\ me' = "failed"
        /\ GuardDecide("unknown")
        /\ UNCHANGED cachedUser
     \/ \E t \in AccountTypes, stored \in BOOLEAN :
          LET a == IF t = "missing" THEN "unknown" ELSE t
          IN  /\ me' = t
              /\ cachedUser' = IF stored THEN a ELSE cachedUser
              /\ GuardDecide(a)

\* lines 76-89: the spinner is returned while checking, the children after
childrenRendered == ~checking

GuardNext ==
  \/ GuardRun
  \/ GuardMeResponse
  \/ GuardMeJson

GuardSpec == GuardInit /\ [][GuardNext]_vars

(***************************************************************************)
(* BulkUpload (src/components/bulk-upload.tsx 38-366).  bulk holds the     *)
(* useState cells file, status, message, count, headerOk, progress and     *)
(* the controller abortRef points to; headerError, apiErrors, techDetails  *)
(* and suggestions are written next to message and read by no handler.     *)
(* The file input, the drop zone and "Clear file" stay enabled while an    *)
(* upload is running (lines 412-419, 447-452, 500-503).                    *)
(***************************************************************************)
\* the changes of the selected file and the onUpload calls of a behaviour
MaxPicks == 3
MaxPosts == 2

\* the files a user picks: one with the expected header, one with another
\* header, one that is no .csv
Files == {"good.csv", "bad.csv", "notes.txt"}

\* lines 99-113: the checks of validateHeader before `await f.text()`
passesLocalChecks(f) == f # "notes.txt"

\* lines 115-145: the header row is the expected one
headerMatches(f) == f = "good.csv"

\* the rows the backend imports from a file
importedCount == [f \in Files |-> IF f = "good.csv" THEN 3 ELSE 1]

\* line 366
disabled ==
  bulk.file = "null" \/ bulk.status = "uploading" \/ bulk.headerOk = "false"

\* the validateHeader call of the current selection has returned
validated ==
  validations # <<>> /\ validations[Len(validations)].pc = "done"

UploadInit ==
  /\ route = "BulkUpload"
  /\ NoResolution
  /\ NoGuard
  /\ NoUpload
  /\ NoShare
  /\ arg = NoArg
  /\ ret = NoRet

\* lines 157-173 with validateHeader up to `await f.text()` (96-115)
OnFileChange(f) ==
  /\ route = "BulkUpload"
  /\ Len(validations) < MaxPicks
  /\ bulk' = [bulk EXCEPT !.file = f, !.status = "idle", !.message = "",
                          !.count = JsNull, !.progress = 0,
                          !.headerOk = IF f = "null" THEN "null"
                                       ELSE IF ~passesLocalChecks(f)
                                       THEN "false" ELSE @]
  /\ validations' =
       Append(validations,
              [file |-> f,
               pc |-> IF f = "null" THEN "none"
                      ELSE IF passesLocalChecks(f) THEN "reading" ELSE "done"])
  /\ UNCHANGED << route, arg, ret, resolutionVars, guardVars, shareVars, posts >>

\* lines 115-154: `await f.text()` settles; a rejection is caught
ValidationSettles(v) ==
  /\ route = "BulkUpload"
  /\ v \in 1..Len(validations)
  /\ validations[v].pc = "reading"
  /\ \E read \in {"text", "reject"} :
       bulk' = [bulk EXCEPT !.headerOk =
                  IF read = "text" /\ headerMatches(validations[v].file)
                  THEN "true" ELSE "false"]
  /\ validations' = [validations EXCEPT ![v].pc = "done"]
  /\ UNCHANGED << route, arg, ret, resolutionVars, guardVars, shareVars, posts >>

\* lines 197-206; status is left as it is
ClearFile ==
  /\ route = "BulkUpload"
  /\ bulk.file # "null"
  /\ Len(validations) < MaxPicks
  /\ bulk' = [bulk EXCEPT !.file = "null", !.headerOk = "null",
                          !.message = "", !.count = JsNull, !.progress = 0]
  /\ validations' = Append(validations, [file |-> "null", pc |-> "none"])
  /\ UNCHANGED << route, arg, ret, resolutionVars, guardVars, shareVars, posts >>

\* abortRef.current?.abort(): the request of the controller, if it is still
\* running, will reject
Abort(ps, u) ==
  IF u \in 1..Len(ps) /\ ps[u].pc = "posting"
  THEN [ps EXCEPT ![u].pc = "aborted"] ELSE ps

\* lines 288-336: a click on the enabled button, up to `await axios.post`;
\* without a stored token the catch runs at once and nothing is sent
OnUpload ==
  /\ route = "BulkUpload"
  /\ ~disabled
  /\ Len(posts) < MaxPosts
  /\ \E token \in BOOLEAN :
       /\ bulk' = [bulk EXCEPT
                     !.abortRef = Len(posts) + 1,
                     !.status = IF token THEN "uploading" ELSE "error",
                     !.message = IF token THEN ""
                                 ELSE "Not authenticated. Please log in and try again.",
                     !.count = JsNull, !.progress = 0]
       /\ posts' = Append(Abort(posts, bulk.abortRef),
                          [pc |-> IF token THEN "posting" ELSE "unsent",
                           file |-> bulk.file,
                           pick |-> Len(validations),
                           headerOk |-> bulk.headerOk,
                           validated |-> validated])
  /\ UNCHANGED << route, arg, ret, resolutionVars, guardVars, shareVars,
                  validations >>

\* lines 324-328: a progress event of a running request
UploadProgress(u) ==
  /\ route = "BulkUpload"
  /\ u \in 1..Len(posts)
  /\ posts[u].pc = "posting"
  /\ \E p \in {50, 100} : bulk' = [bulk EXCEPT !.progress = p]
  /\ UNCHANGED << route, arg, ret, resolutionVars, guardVars, shareVars,
                  validations, posts >>

\* lines 338-363: `await axios.post` settles: the answer, or a rejection
\* (an error status, the 60 s timeout, the abort)
UploadSettles(u) ==
  /\ route = "BulkUpload"
  /\ u \in 1..Len(posts)
  /\ posts[u].pc \in {"posting", "aborted"}
  /\ posts' = [posts EXCEPT ![u].pc = "done"]
  /\ IF posts[u].pc = "aborted"
     THEN bulk' = [bulk EXCEPT !.status = "error", !.message = "Upload canceled"]
     ELSE \E o \in {"ok", "failed"} :
            IF o = "ok"
            THEN bulk' = [bulk EXCEPT
                            !.status = "success",
                            !.count = JsNumber(importedCount[posts[u].file]),
                            !.message = "Upload completed successfully.",
                            !.progress = 100]
            ELSE bulk' = [bulk EXCEPT !.status = "error",
                                      !.message = "Request failed (500)"]
  /\ UNCHANGED << route, arg, ret, resolutionVars, guardVars, shareVars,
                  validations >>

UploadNext ==
  \/ \E f \in Files \cup {"null"} : OnFileChange(f)
  \/ \E v \in 1..MaxPicks : ValidationSettles(v)
  \/ ClearFile
  \/ OnUpload
  \/ \E u \in 1..MaxPosts : UploadProgress(u)
  \/ \E u \in 1..MaxPosts : UploadSettles(u)

UploadSpec == UploadInit /\ [][UploadNext]_vars

(***************************************************************************)
(* The share dialog of MintedCredentialsSummary (bulk-upload.tsx           *)
(* 986-1032).  The dialog covers the list, so a credential is shared while *)
(* no dialog is open; the three duration buttons are disabled while        *)
(* shareLoading (lines 1730-1745).                                         *)
(***************************************************************************)
\* the generateShare calls of a behaviour
MaxGenerations == 2

\* the credentials of the list, by id, and the durations of the buttons
ShareCreds == {1, 2}
Hours == {1, 24}

ShareInit ==
  /\ route = "share"
  /\ NoResolution
  /\ NoGuard
  /\ NoUpload
  /\ NoShare
  /\ arg = NoArg
  /\ ret = NoRet

\* lines 986-992
OpenShare(c) ==
  /\ route = "share"
  /\ ~share.shareOpen
  /\ share' = [ shareOpen |-> TRUE, shareLoading |-> FALSE,
                shareError |-> "null", shareUrl |-> JsNull, shareFor |-> c ]
  /\ UNCHANGED << route, arg, ret, resolutionVars, guardVars, uploadVars,
                  generations >>

\* lines 993-999
CloseShare ==
  /\ route = "share"
  /\ share.shareOpen
  /\ share' = [ shareOpen |-> FALSE, shareLoading |-> FALSE,
                shareError |-> "null", shareUrl |-> JsNull, shareFor |-> 0 ]
  /\ UNCHANGED << route, arg, ret, resolutionVars, guardVars, uploadVars,
                  generations >>

\* lines 1001-1018: a click on a duration button, up to `await fetch`
GenerateShare(h) ==
  /\ route = "share"
  /\ share.shareOpen /\ share.shareFor # 0 /\ ~share.shareLoading
  /\ Len(generations) < MaxGenerations
  /\ share' = [share EXCEPT !.shareLoading = TRUE, !.shareError = "null"]
  /\ generations' = Append(generations,
                           [pc |-> "fetch", cred |-> share.shareFor, hours |-> h])
  /\ UNCHANGED << route, arg, ret, resolutionVars, guardVars, uploadVars >>

\* catch and finally of generateShare (lines 1027-1031)
ShareFails(g, msg) ==
  /\ share' = [share EXCEPT !.shareError = msg, !.shareLoading = FALSE]
  /\ generations' = [generations EXCEPT ![g].pc = "done"]

\* lines 1010-1023: the fetch settles
ShareResponse(g) ==
  /\ route = "share"
  /\ g \in 1..Len(generations)
  /\ generations[g].pc = "fetch"
  /\ UNCHANGED << route, arg, ret, resolutionVars, guardVars, uploadVars >>
  /\ \E o \in FetchOutcomes :
       IF o = "reject" THEN ShareFails(g, "Failed to generate share link")
       ELSE /\ generations' =
                 [generations EXCEPT ![g].pc = IF o = "ok" THEN "json" ELSE "text"]
            /\ UNCHANGED share

\* the URL the backend generates for a credential and a duration
shareableUrl(c, h) == [t |-> "url", cred |-> c, hours |-> h]

\* lines 1019-1031: `await res.text()` or `await res.json()` settles
ShareBody(g) ==
  /\ route = "share"
  /\ g \in 1..Len(generations)
  /\ generations[g].pc \in {"text", "json"}
  /\ UNCHANGED << route, arg, ret, resolutionVars, guardVars, uploadVars >>
  /\ IF generations[g].pc = "text" THEN ShareFails(g, "Failed (500)")
     ELSE \E k \in {"throw", "nourl", "url"} :
            IF k = "url"
            THEN /\ share' = [share EXCEPT
                                !.shareUrl = shareableUrl(generations[g].cred,
                                                          generations[g].hours),
                                !.shareLoading = FALSE]
                 /\ generations' = [generations EXCEPT ![g].pc = "done"]
            ELSE ShareFails(g, IF k = "nourl" THEN "No URL returned by server"
                               ELSE "Failed to generate share link")

ShareNext ==
  \/ \E c \in ShareCreds : OpenShare(c)
  \/ CloseShare
  \/ \E h \in Hours : GenerateShare(h)
  \/ \E g \in 1..MaxGenerations : ShareResponse(g)
  \/ \E g \in 1..MaxGenerations : ShareBody(g)

ShareSpec == ShareInit /\ [][ShareNext]_vars

(***************************************************************************)
(* Vocabulary of the properties.                                           *)
(***************************************************************************)
InFlight(r) == pc[r] \notin {"idle", "done"}

\* the resolution r takes a step
Moves(r) == << pc[r], idx[r], ct[r], log[r] >> # << pc'[r], idx'[r], ct'[r], log'[r] >>

\* the resolution r ends in this step, in the given way
Ends(r, how) == pc[r] # "done" /\ pc'[r] = "done" /\ outcome'[r] = how

\* the gateway requests of a log
GatewayUrls(l) ==
  LET g == SelectSeq(l, LAMBDA e : e.to = "gateway")
  IN  [i \in 1..Len(g) |-> g[i].url]

\* the entries of a log before its last one
Earlier(l) == SubSeq(l, 1, Len(l) - 1)

AllFailed(l) == \A i \in 1..Len(l) : l[i].res = "failed"

(***************************************************************************)
(* C1: last call wins.  Whatever the order in which the responses arrive,  *)
(* once every started resolution has ended the metadata on display is that *)
(* of the resolution started last: no earlier resolution wrote after it.   *)
(***************************************************************************)
C1_LastCallWins ==
  (/\ route \in {"verify", "credentials"}
   /\ calls > 0
   /\ \A r \in 1..calls : pc[r] = "done"
   /\ ipfsData # NullData)
    => ipfsData.of = normalized[calls]

(***************************************************************************)
(* C2: when the proxy answers OK with an envelope whose ok is true, the    *)
(* resolution of fetchIpfs ends there: the proxy request is the only       *)
(* request it made, ipfsData and ipfsResolvedUrl are those of an envelope  *)
(* for its identifier, and a resolution is in the gateway loop only after  *)
(* its proxy request failed.                                               *)
(***************************************************************************)
C2_ProxySuccessOnly ==
  /\ [](\A r \in Res :
          (route = "verify" /\ pc[r] \in {"gwFetch", "gwBody"})
            => log[r][1].to = "proxy" /\ log[r][1].res = "failed")
  /\ [][\A r \in Res :
          (route = "verify" /\ Ends(r, "proxy"))
            => /\ Len(log[r]) = 1
               /\ log[r][1].to = "proxy"
               /\ \E k \in JsonResults :
                    /\ ~k.thrown /\ k.ok
                    /\ ipfsData' = Envelope(normalized[r], k).data
                    /\ ipfsResolvedUrl' = Envelope(normalized[r], k).resolvedUrl]_vars

C2_Witness ==
  \E r \in Res : route = "verify" /\ outcome[r] = "proxy" /\ ipfsData # NullData

(***************************************************************************)
(* C3: a failure of the proxy request (rejected fetch, status not OK, body *)
(* that is not JSON, envelope with ok false) writes no error and leads to  *)
(* the request of the first gateway candidate; a resolution of fetchIpfs   *)
(* reports the error only when all its gateway candidates have failed.     *)
(***************************************************************************)
C3_ProxyFailureRecovered ==
  [][\A r \in Res :
       /\ (route = "verify" /\ pc[r] \in {"proxyFetch", "proxyJson"}
             /\ pc'[r] \notin {"proxyFetch", "proxyJson"} /\ ~Ends(r, "proxy"))
            => /\ ipfsError' = ipfsError
               /\ pc'[r] = "gwFetch"
               /\ Len(log'[r]) = 2
               /\ log'[r][1].res = "failed"
               /\ log'[r][2] = GatewayReq(clientCandidates(normalized[r])[1])
       /\ (route = "verify" /\ Moves(r) /\ ipfsError' # NoError
             /\ ipfsError' # ipfsError)
            => /\ Ends(r, "exhausted")
               /\ GatewayUrls(log[r]) = tryUrls[r]
               /\ AllFailed(Earlier(log[r]))]_vars

C3_Witness ==
  \E r \in Res :
    /\ route = "verify" /\ pc[r] = "gwFetch"
    /\ log[r][1].to = "proxy" /\ log[r][1].res = "failed"
    /\ ipfsError = NoError

(***************************************************************************)
(* C4: in the gateway loop of fetchIpfs and of the route handler, every    *)
(* candidate requested before the current one has failed and the requests  *)
(* follow the list order; the resolution ends with the first candidate     *)
(* that succeeds, whose URL is the one recorded (ipfsResolvedUrl, or       *)
(* resolvedUrl of the envelope).                                           *)
(***************************************************************************)
C4_FirstSuccessWins ==
  /\ [](\A r \in Res :
          (route \in {"verify", "api"} /\ InFlight(r))
            => /\ AllFailed(Earlier(log[r]))
               /\ GatewayUrls(log[r]) = SubSeq(tryUrls[r], 1, idx[r]))
  /\ [][\A r \in Res :
          (route \in {"verify", "api"} /\ Ends(r, "gateway"))
            => /\ idx[r] \in 1..Len(tryUrls[r])
               /\ log[r][Len(log[r])].url = tryUrls[r][idx[r]]
               /\ route = "verify" => ipfsResolvedUrl' = tryUrls[r][idx[r]]
               /\ route = "api" =>
                    /\ response'[r].ok
                    /\ response'[r].resolvedUrl = tryUrls[r][idx[r]]]_vars

C4_Witness ==
  \E r \in Res :
    /\ route = "verify" /\ outcome[r] = "gateway"
    /\ Len(tryUrls[r]) > 1
    /\ ipfsResolvedUrl = tryUrls[r][2]

(***************************************************************************)
(* C5: a resolution of fetchIpfs whose proxy request and gateway           *)
(* candidates all failed ends with ipfsError set, ipfsData null,           *)
(* ipfsResolvedUrl null and ipfsLoading false.                             *)
(***************************************************************************)
C5_ExhaustedEndState ==
  [][\A r \in Res :
       (route = "verify" /\ Ends(r, "exhausted"))
         => /\ ipfsError' = ExhaustedMsg
            /\ ipfsData' = NullData
            /\ ipfsResolvedUrl' = NullUrl
            /\ ipfsLoading' = FALSE]_vars

ExhaustedMsgs == { ExhaustedMsg, LegacyExhaustedMsg, DetailsExhaustedMsg }

C7_AttemptedUrlsSurfaced ==
  [][\A r \in Res :
       (route = "verify" /\ Ends(r, "exhausted"))
         => /\ ipfsFallbackUrls' = tryUrls[r]
            /\ fallbackLinks(ipfsFallbackUrls') = GatewayUrls(log[r])]_vars

(***************************************************************************)
(* C8: the proxy step cannot hang: a resolution of fetchIpfs waiting for   *)
(* the proxy fetch eventually gets past it.                                *)
(***************************************************************************)
C8_ProxyCannotHang ==
  \A r \in Res :
    (route = "verify" /\ pc[r] = "proxyFetch") ~> (pc[r] # "proxyFetch")

(***************************************************************************)
(* C9: every started resolution of fetchIpfs and every invocation of the   *)
(* route handler eventually ends.                                          *)
(***************************************************************************)
C9_ResolutionsFinish ==
  \A r \in Res :
    (route \in {"verify", "api"} /\ InFlight(r)) ~> (pc[r] = "done")

(***************************************************************************)
(* C10, as claimed: every client resolution that issues requests issues    *)
(* the proxy request first and exactly once.                               *)
(***************************************************************************)
ProxyFirstOnce(l) ==
  /\ l # <<>>
  /\ l[1].to = "proxy"
  /\ \A i \in 2..Len(l) : l[i].to = "gateway"

C10_ProxyFirstEverywhere ==
  \A r \in Res :
    (route \in {"verify", "legacy", "credentials"} /\ InFlight(r))
      => ProxyFirstOnce(log[r])

(***************************************************************************)
(* C10, amended: in fetchIpfs with the proxy hop (part_001) the proxy is   *)
(* requested exactly once and before any gateway; openDetails and          *)
(* fetchIpfs of page.tsx never request the proxy, all their requests go to *)
(* gateways.                                                               *)
(***************************************************************************)
C10_ProxyFirstInFetchIpfs ==
  \A r \in Res :
    /\ (route = "verify" /\ InFlight(r)) => ProxyFirstOnce(log[r])
    /\ (route \in {"legacy", "credentials"} /\ InFlight(r))
         => /\ log[r] # <<>>
            /\ \A i \in 1..Len(log[r]) : log[r][i].to = "gateway"

C10_Witness ==
  \E r \in Res :
    /\ route = "verify" /\ pc[r] = "gwFetch"
    /\ Len(log[r]) >= 3 /\ log[r][1].to = "proxy"


(***************************************************************************)
(* C11: what the verify page shows for a body that is not valid JSON is    *)
(* the text wrapped under a content field, also when the text reached it   *)
(* through the proxy envelope: the page never holds the bare text.         *)
(***************************************************************************)
C11_MalformedBodyWrapped ==
  route = "verify" => ipfsData.t # "text"


(***************************************************************************)
(* C12: whenever normalize returns a value the candidate resolver treats   *)
(* as a bare identifier (not starting with http:// or https://), the value *)
(* does not start with ipfs://, ar://, /ipfs/ or ipfs/.                    *)
(***************************************************************************)
C12_BareIdHasNoPrefix ==
  (route = "normalize" /\ ret.t = "returned" /\ ~IsHttpCI(ret.v)) =>
    /\ ~StartsWith(ret.v, Str_ipfsScheme)
    /\ ~StartsWith(ret.v, Str_ar)
    /\ ~StartsWith(ret.v, Str_slashIpfs)
    /\ ~StartsWith(ret.v, Str_ipfsPath)


(***************************************************************************)
(* C13: normalizing a raw pointer of any type (string, number, null,       *)
(* undefined, object, array) never throws, in normalize of fetchIpfs and   *)
(* of the route handler, in normalize of openDetails and in                *)
(* extractIpfsLink; a null, undefined or blank pointer gives empty.        *)
(***************************************************************************)
C13_NormalizerNeverThrows ==
  /\ route \in PureRoutes => ret # Thrown
  /\ (/\ route = "normalize" /\ ret # NoRet
      /\ \/ arg.t \in {"null", "undefined"}
         \/ arg.t = "string" /\ Trim(arg.v) = <<>>)
       => ret = Returned(<<>>)


\* a bare content id: Qm and letters and digits (the length the pattern of
\* isStringCid asks for is left open)
BareId(s) == StartsWith(s, <<"Q", "m">>) /\ AllIn(s, Base58CI)

\* a path below a content id: /segment, once or more
IsPath(s) ==
  /\ s # <<>> /\ Head(s) = "/" /\ s[Len(s)] # "/"
  /\ AllIn(s, Base58CI \cup {"/"})
  /\ \A i \in 1..(Len(s) - 1) : ~(s[i] = "/" /\ s[i + 1] = "/")

\* s is the prefix followed by a bare content id and maybe a path
IsPrefixed(s, prefix) ==
  /\ StartsWith(s, prefix)
  /\ \E n \in 1..(Len(s) - Len(prefix)) :
       /\ BareId(SubSeq(s, Len(prefix) + 1, Len(prefix) + n))
       /\ \/ Len(prefix) + n = Len(s)
          \/ IsPath(Drop(s, Len(prefix) + n))

\* the first element of a list of scalars that is a pointer: a string that
\* is not blank
FirstPointer(items) ==
  LET ptrs == SelectSeq(items, LAMBDA v : v.t = "string" /\ Trim(v.v) # <<>>)
  IN  IF ptrs = <<>> THEN <<>> ELSE Trim(ptrs[1].v)

\* what fetchIpfs is to work with for the pointer string p
Expected(p) == IF p = <<>> THEN Skipped ELSE Returned(normalize(JsString(p)))

(***************************************************************************)
(* C14: the documented result for each supported pointer shape: a bare     *)
(* content id is returned unchanged; ipfs://id gives id; /ipfs/id/path     *)
(* gives id/path; a full https:// URL is returned unchanged; ar://id gives *)
(* https://arweave.net/id; an object with tokenURI, also nested below      *)
(* credential, and an array of pointers give the normalization of the      *)
(* first pointer inside.                                                   *)
(***************************************************************************)
C14_DocumentedShapes ==
  /\ (route = "normalize" /\ ret # NoRet /\ arg.t = "string") =>
       /\ BareId(arg.v) => ret = Returned(arg.v)
       /\ IsPrefixed(arg.v, Str_ipfsScheme) =>
            ret = Returned(Drop(arg.v, Len(Str_ipfsScheme)))
       /\ IsPrefixed(arg.v, Str_slashIpfs) =>
            ret = Returned(Drop(arg.v, Len(Str_slashIpfs)))
       /\ (StartsWith(arg.v, Str_https) /\ arg.v = Trim(arg.v)) =>
            ret = Returned(arg.v)
       /\ IsPrefixed(arg.v, Str_ar) =>
            ret = Returned(Str_https \o <<"arweave.net", "/">>
                             \o Drop(arg.v, Len(Str_ar)))
  /\ (route = "effect" /\ ret # NoRet) =>
       /\ \A k \in {"tokenURI", "ipfs_link"} :
            (DOMAIN arg.f = {k} /\ arg.f[k].t = "string") =>
               ret = Expected(Trim(arg.f[k].v))
       /\ \A k \in {"tokenURI", "ipfs_link"} :
            (/\ DOMAIN arg.f = {"credential"}
             /\ arg.f["credential"].t = "object"
             /\ DOMAIN arg.f["credential"].f = {k}
             /\ arg.f["credential"].f[k].t = "string") =>
               ret = Expected(Trim(arg.f["credential"].f[k].v))
       /\ \A k \in {"tokenURI", "ipfs_link"} :
            (/\ DOMAIN arg.f = {k} /\ arg.f[k].t = "array"
             /\ \A i \in 1..Len(arg.f[k].v) :
                  arg.f[k].v[i].t \in {"string", "null", "number"}) =>
               ret = Expected(FirstPointer(arg.f[k].v))

C14_Witness ==
  /\ route = "effect"
  /\ arg = JsObject("tokenURI" :>
                      JsArray(<< JsString(<<" ">>),
                                 JsString(Str_ipfsScheme \o PtrCid) >>))
  /\ ret = Returned(PtrCid)


\* the gateways of the two lists, each with its path-style prefix and its
\* subdomain-style suffix
GatewayStyles ==
  << [path |-> "https://cloudflare-ipfs.com/ipfs/",
      sub |-> ".ipfs.cloudflare-ipfs.com"],
     [path |-> "https://ipfs.io/ipfs/", sub |-> ".ipfs.ipfs.io"],
     [path |-> "https://nftstorage.link/ipfs/", sub |-> ".ipfs.nftstorage.link"],
     [path |-> "https://dweb.link/ipfs/", sub |-> ".ipfs.dweb.link"],
     [path |-> "https://gateway.pinata.cloud/ipfs/",
      sub |-> ".ipfs.gateway.pinata.cloud"] >>

PathStyle(g, id, path) == <<g.path>> \o id \o path
SubdomainStyle(g, id, path) == <<"https://">> \o id \o <<g.sub>> \o path

InSeq(x, seq) == \E i \in 1..Len(seq) : seq[i] = x

\* s is the content id followed by the path, which may be empty
IsIdAndPath(s, id, path) ==
  /\ s = id \o path
  /\ BareId(id)
  /\ path = <<>> \/ IsPath(path)

\* the ways to cut s into a content id and a path
Cuts(s) ==
  { c \in { [id |-> SubSeq(s, 1, n), path |-> Drop(s, n)] : n \in 1..Len(s) } :
      IsIdAndPath(s, c.id, c.path) }

(***************************************************************************)
(* C15 as stated: for a bare-identifier pointer the candidate list holds,  *)
(* for every configured gateway, both the path-style and the               *)
(* subdomain-style URL.                                                    *)
(***************************************************************************)
C15_BothStylesEveryGateway ==
  (route \in {"buildCandidates", "tryUrls"} /\ ret # NoRet) =>
    \A c \in Cuts(arg) :
      \A i \in 1..Len(GatewayStyles) :
        /\ InSeq(PathStyle(GatewayStyles[i], c.id, c.path), ret.v)
        /\ InSeq(SubdomainStyle(GatewayStyles[i], c.id, c.path), ret.v)

(***************************************************************************)
(* C15: for a bare-identifier pointer, buildCandidates returns the         *)
(* path-style URL of each of the five gateways, in their order, followed   *)
(* by the subdomain-style URL of nftstorage.link and of dweb.link only;    *)
(* tryUrls of fetchIpfs holds the five path-style URLs only.               *)
(***************************************************************************)
C15_CandidateStyles ==
  /\ (route = "buildCandidates" /\ ret # NoRet) =>
       \A c \in Cuts(arg) :
         ret.v = [i \in 1..5 |-> PathStyle(GatewayStyles[i], c.id, c.path)]
                   \o << SubdomainStyle(GatewayStyles[3], c.id, c.path),
                         SubdomainStyle(GatewayStyles[4], c.id, c.path) >>
  /\ (route = "tryUrls" /\ ret # NoRet) =>
       \A c \in Cuts(arg) :
         ret.v = [i \in 1..5 |-> PathStyle(GatewayStyles[i], c.id, c.path)]

C15_Witness ==
  /\ route = "buildCandidates"
  /\ arg = PtrCid \o <<"/", "p">>
  /\ ret # NoRet
  /\ Len(ret.v) = 7


\* the entry a carries the label under one of the two spellings of the key
HasLabel(a, key) ==
  Get(a, "trait_type") = JsString(key) \/ Get(a, "traitType") = JsString(key)

\* the entries of the attributes list of a document, none if it has no list
AttrsOf(data) ==
  IF Get(data, "attributes").t = "array" THEN Get(data, "attributes").v
  ELSE <<>>

\* the flat synonym fields of a document that are present, in their order
PresentFlat(data, key) ==
  SelectSeq([i \in 1..Len(flatSynonyms(key)) |-> Get(data, flatSynonyms(key)[i])],
            LAMBDA v : v # JsUndefined)

(***************************************************************************)
(* C16: the attribute lookup never throws and follows the order: an entry  *)
(* of the attributes list whose trait_type or traitType equals the label   *)
(* gives that entry's value, whatever the flat fields hold; else the first *)
(* present flat synonym field; else the em-dash.                           *)
(***************************************************************************)
C16_AttributeOrder ==
  (route = "getAttr" /\ ret # NoRet) =>
    /\ ret # Thrown
    /\ LET entries == AttrsOf(arg.data)
           flat == PresentFlat(arg.data, arg.key)
       IN  IF \E i \in 1..Len(entries) : HasLabel(entries[i], arg.key)
           THEN \E i \in 1..Len(entries) :
                  /\ HasLabel(entries[i], arg.key)
                  /\ ret = Returned(Get(entries[i], "value"))
           ELSE IF flat # <<>> THEN ret = Returned(flat[1])
           ELSE ret = Returned(EmDash)


\* the upper-cased status string of a response body, "" when it has none
StatusText(data) ==
  LET st == IF Truthy(Get(data, "status")) THEN Get(data, "status")
            ELSE IF Truthy(Get(data, "result")) THEN Get(data, "result")
            ELSE JsString(<<>>)
  IN  toUpperCase(st.v)

\* the statuses the credential-info mapping knows
KnownToCredentialInfo ==
  { <<"VERIFIED">>, <<"VALID">>, <<"SUCCESS">>, <<"NOT_FOUND">>, <<"MISSING">>,
    <<"NO_MATCH">>, <<"TAMPER", "ED">>, <<"INVALID">>, <<"MANIPULATED">> }

\* the statuses submit knows
KnownToSubmit(raw) ==
  \/ raw \in { <<"VERIFIED">>, <<"VALID">>, <<"AUTHENTIC">>, <<"ORIGINAL">>,
               <<"INVALID">>, <<"FORGED">>, <<"FAKE">>, <<"UNKNOWN">>,
               <<"MISSING">>, <<"NO_RECORD">> }
  \/ \E w \in {"TAMPER", "MISMATCH", "NOT_FOUND", "NO_MATCH"} : Includes(raw, w)

Unrecognized ==
  IF route = "credentialInfo" THEN StatusText(arg) \notin KnownToCredentialInfo
  ELSE ~KnownToSubmit(StatusText(arg))

(***************************************************************************)
(* C17 as stated: every status mapping maps an unrecognized or missing     *)
(* upstream status to VERIFIED.                                            *)
(***************************************************************************)
C17_EveryMappingFailsOpen ==
  (route \in {"credentialInfo", "submit"} /\ ret # NoRet /\ Unrecognized) =>
    ret = Returned("VERIFIED")

(***************************************************************************)
(* C17: the mapping of the credential-info effects maps an unrecognized or *)
(* missing upstream status to VERIFIED; the mapping of submit maps it to   *)
(* TAMPERED.                                                               *)
(***************************************************************************)
C17_FailOpenInCredentialInfo ==
  /\ (route = "credentialInfo" /\ ret # NoRet /\ Unrecognized) =>
       ret = Returned("VERIFIED")
  /\ (route = "submit" /\ ret # NoRet /\ Unrecognized) =>
       ret = Returned("TAMPERED")

C17_Witness ==
  /\ route = "credentialInfo"
  /\ arg = JsObject("status" :> JsString(<<"PENDING">>) @@ "result" :> JsUndefined)
  /\ ret = Returned("VERIFIED")


\* where the guard leaves the browser: the target of its router.replace, or
\* the page it is on when it issued none
Destination == IF redirects = <<>> THEN pathname ELSE redirects[Len(redirects)]

OtherRole(role) == IF role = "student" THEN "university" ELSE "student"
AreaOf(role) == IF role = "university" THEN "/university" ELSE "/dashboard"

(***************************************************************************)
(* C18: when `run` of RoleGuard has ended: without a valid stored token    *)
(* the browser is sent to "/"; with a valid token and the account type of  *)
(* the other role it is sent to that role's area; with an unknown account  *)
(* type or a failed /api/v1/auth/me call it is sent to /role-selection;    *)
(* with the required account type no redirect is issued.  At most one      *)
(* redirect is issued.                                                     *)
(***************************************************************************)
C18_RoleGuardRedirects ==
  (route = "RoleGuard" /\ gpc = "done") =>
    /\ Len(redirects) <= 1
    /\ ~tokenValid => Destination = "/"
    /\ (tokenValid /\ me = OtherRole(required)) =>
         redirects = << AreaOf(OtherRole(required)) >>
    /\ (tokenValid /\ me \notin Roles) => Destination = "/role-selection"
    /\ (tokenValid /\ me = required) => redirects = <<>>

C18_Witness ==
  /\ route = "RoleGuard" /\ gpc = "done"
  /\ required = "university" /\ me = "student"
  /\ redirects = << "/dashboard" >>


\* the gateway requests of a log, with their results
GatewayReqs(l) == SelectSeq(l, LAMBDA e : e.to = "gateway")

(***************************************************************************)
(* C19: within a resolution of fetchIpfs or of the route handler the       *)
(* gateway candidates are requested one at a time in list order: only the  *)
(* latest gateway request can be unsettled, every earlier one has failed,  *)
(* the i-th request goes to the i-th candidate, and no URL is requested    *)
(* twice.                                                                  *)
(***************************************************************************)
C19_SerialLoop ==
  \A r \in Res :
    (route \in {"verify", "api"} /\ InFlight(r)) =>
      LET g == GatewayReqs(log[r])
      IN  /\ Cardinality({ i \in 1..Len(g) : g[i].res = "pending" }) <= 1
          /\ \A i \in 1..(Len(g) - 1) : g[i].res = "failed"
          /\ Len(g) <= Len(tryUrls[r])
          /\ \A i \in 1..Len(g) : g[i].url = tryUrls[r][i]
          /\ \A i, j \in 1..Len(g) : i # j => g[i].url # g[j].url

C19_Witness ==
  \E r \in Res :
    /\ route = "api" /\ pc[r] = "gwFetch"
    /\ Len(GatewayReqs(log[r])) = 7


\* the resolution r of fetchIpfs is in its gateway loop
InGatewayLoop(r) == route = "verify" /\ pc[r] \in {"gwFetch", "gwBody"}

(***************************************************************************)
(* C20 as stated: after a proxy failure the URL list fetchIpfs iterates is *)
(* the list buildCandidates returns for the same normalized pointer.       *)
(***************************************************************************)
C20_ClientListIsResolverList ==
  \A r \in Res :
    InGatewayLoop(r) => tryUrls[r] = buildCandidates(normalized[r])

(***************************************************************************)
(* C20: after a proxy failure the URL list fetchIpfs iterates is the list  *)
(* of buildCandidates for the same normalized pointer without its          *)
(* subdomain-style URLs: the same single URL for an http(s) pointer, the   *)
(* first five of the seven URLs for a bare identifier.                     *)
(***************************************************************************)
C20_ClientListIsPathPrefix ==
  \A r \in Res :
    InGatewayLoop(r) =>
      LET all == buildCandidates(normalized[r])
      IN  IF Len(all) = 1 THEN tryUrls[r] = all
          ELSE /\ Len(all) = 7
               /\ tryUrls[r] = SubSeq(all, 1, 5)
               /\ \A i \in 6..7 : ~InSeq(all[i], tryUrls[r])

C20_Witness ==
  \E r \in Res :
    /\ InGatewayLoop(r)
    /\ normalized[r] = PtrCid
    /\ Len(tryUrls[r]) = 5
    /\ log[r][1].res = "failed"

\* the resolution r is started in this step (a call that returns at its
\* first line for a missing pointer starts none)
Starts(r) == pc[r] = "idle" /\ pc'[r] # "idle" /\ outcome'[r] # "ignored"

\* the resolution r ends in this step
Completes(r) == pc[r] # "done" /\ pc'[r] = "done" /\ outcome'[r] # "ignored"

(***************************************************************************)
(* C21: every resolution starts from a fresh state and nothing is cached   *)
(* across calls.  The step that starts a resolution leaves ipfsData and    *)
(* ipfsResolvedUrl null and no error but its own; after the step that ends *)
(* a resolution, the data, the resolved URL, the error and the fallback    *)
(* links on display are those this resolution produced.                    *)
(***************************************************************************)
C21_FreshPerResolution ==
  [][\A r \in Res :
       route \in {"verify", "legacy", "credentials"} =>
         /\ Starts(r) =>
              /\ ipfsData' = NullData
              /\ ipfsResolvedUrl' = NullUrl
              /\ ipfsError' # NoError => outcome'[r] = "empty"
         /\ Completes(r) =>
              /\ ipfsData' # NullData =>
                   /\ outcome'[r] \in {"proxy", "gateway"}
                   /\ ipfsData'.of = normalized'[r]
              /\ ipfsResolvedUrl' # NullUrl =>
                   outcome'[r] \in {"proxy", "gateway"}
              /\ ipfsError' # NoError =>
                   /\ outcome'[r] \in {"exhausted", "empty"}
                   /\ route = "verify" => ipfsFallbackUrls' = tryUrls'[r]]_vars

\* the extraction of the first of the values whose extraction is a string
\* that is not empty, null when there is none
FirstNonEmpty(vals) ==
  LET res  == [i \in 1..Len(vals) |-> extractIpfsLink(vals[i])]
      good == { i \in 1..Len(vals) : res[i].t = "string" /\ res[i].v # <<>> }
  IN  IF good = {} THEN JsNull
      ELSE res[CHOOSE i \in good : \A j \in good : i <= j]

\* the values an object has under the candidate keys, in the order of the keys
CandidateValues(obj) ==
  LET present == SelectSeq(extractKeys, LAMBDA k : k \in DOMAIN obj.f)
  IN  [i \in 1..Len(present) |-> obj.f[present[i]]]

(***************************************************************************)
(* C22: the extraction searches in a fixed order.  For an array the result *)
(* is the extraction of the first element that yields a non-empty result,  *)
(* null when no element does.  For an object it is the extraction of the   *)
(* first candidate key, in the order of the keys, whose value yields a     *)
(* non-empty result.  An object {"/": id}, id an identifier without        *)
(* surrounding white space, yields id.                                     *)
(***************************************************************************)
C22_ExtractionOrder ==
  (route = "extractIpfsLink" /\ ret # NoRet) =>
    /\ arg.t = "array" => ret.v = FirstNonEmpty(arg.v)
    /\ (arg.t = "object" /\ FirstNonEmpty(CandidateValues(arg)) # JsNull) =>
         ret.v = FirstNonEmpty(CandidateValues(arg))
    /\ (/\ arg.t = "object" /\ DOMAIN arg.f = {"/"}
        /\ arg.f["/"].t = "string"
        /\ arg.f["/"].v # <<>> /\ Trim(arg.f["/"].v) = arg.f["/"].v) =>
         ret.v = arg.f["/"]

C22_Witness ==
  /\ route = "extractIpfsLink"
  /\ arg = JsObject("tokenURI" :> JsString(<<" ">>)
                      @@ "/" :> JsString(LongCid))
  /\ ret = Returned(JsString(LongCid))

\* the string looks like a content id or carries the ipfs:// prefix
LooksLikeCid(s) == isStringCid(s) \/ StartsWith(s, Str_ipfsScheme)

(***************************************************************************)
(* C23: a string held in a cid or hash field of an object is returned by   *)
(* the extraction only if it matches a content id pattern (Qm..., bafy...) *)
(* or starts with ipfs://.                                                 *)
(***************************************************************************)
C23_CidFieldsValidated ==
  (/\ route = "extractIpfsLink" /\ ret # NoRet
   /\ arg.t = "object"
   /\ DOMAIN arg.f \subseteq {"cid", "hash"}
   /\ \A k \in DOMAIN arg.f : arg.f[k].t = "string") =>
     (ret.v.t # "string" \/ ret.v.v = <<>> \/ LooksLikeCid(ret.v.v))

(***************************************************************************)
(* C24: wherever a date label is displayed, a missing value is shown as    *)
(* the absent marker, a value that does not parse as a date is shown       *)
(* unchanged, and "Invalid Date" is never shown.                           *)
(***************************************************************************)
C24_DatesNeverInvalid ==
  (route \in {"formatDate", "listDate"} /\ ret # NoRet) =>
    /\ ret # Thrown
    /\ ~Truthy(arg) => ret.v = EmDash
    /\ (Truthy(arg) /\ ~newDate(arg.v).valid) => ret.v = arg
    /\ ret.v # JsString(<<"Invalid Date">>)

(***************************************************************************)
(* C25: RoleGuard renders its children only when the stored token is valid *)
(* and the account type /api/v1/auth/me returned is the required role;     *)
(* they are not rendered while the check runs nor in any state after a     *)
(* redirect was issued.                                                    *)
(***************************************************************************)
C25_ChildrenOnlyForRole ==
  (route = "RoleGuard" /\ childrenRendered) =>
    /\ gpc = "done"
    /\ tokenValid
    /\ me = required
    /\ redirects = <<>>

(***************************************************************************)
(* C26: a bulk-upload request is sent only for a file whose own header     *)
(* validation has completed with success: when onUpload sends the request, *)
(* headerOk is true, the validateHeader call of the selected file has      *)
(* returned, and the header of the file sent is the expected one.          *)
(***************************************************************************)
C26_UploadOnlyValidated ==
  route = "BulkUpload" =>
    \A u \in 1..Len(posts) :
      posts[u].pc # "unsent" =>
        /\ posts[u].headerOk = "true"
        /\ posts[u].validated
        /\ headerMatches(posts[u].file)

\* the upload u is not the newest one, or the selected file changed since
\* it was started
Superseded(u) == u # Len(posts) \/ posts[u].pick # Len(validations)

(***************************************************************************)
(* C27: status, message, count and progress belong to the most recently    *)
(* started upload of the selected file: the completion, failure, abort or  *)
(* progress of an upload changes none of them once a file was selected or  *)
(* cleared or a newer upload was started after it.                         *)
(***************************************************************************)
C27_UploadResultCurrent ==
  [][\A u \in 1..Len(posts) :
       (route = "BulkUpload" /\ Superseded(u)
        /\ (UploadSettles(u) \/ UploadProgress(u)))
         => /\ bulk'.status = bulk.status
            /\ bulk'.message = bulk.message
            /\ bulk'.count = bulk.count
            /\ bulk'.progress = bulk.progress]_vars

(***************************************************************************)
(* C28: whenever a share URL is shown in the share dialog, it was          *)
(* generated for the credential held in shareFor; a generate-share-link    *)
(* response for a credential shared earlier does not become the shareUrl   *)
(* of the dialog.                                                          *)
(***************************************************************************)
C28_ShareUrlForCredential ==
  (route = "share" /\ share.shareOpen /\ share.shareUrl # JsNull)
    => share.shareUrl.cred = share.shareFor

(***************************************************************************)
(* C29: after closeDetails the details state stays cleared until the next  *)
(* openDetails: while no details dialog is open, ipfsData and ipfsError    *)
(* are null, ipfsLoading is false and activeCred is null, whatever a       *)
(* resolution started before the close gets answered.                      *)
(***************************************************************************)
C29_ClosedStaysCleared ==
  (route = "credentials" /\ ~detailsOpen) =>
    /\ ipfsData = NullData
    /\ ipfsError = NoError
    /\ ~ipfsLoading
    /\ activeCred = NoCred

(***************************************************************************)
(* C30: normalization is idempotent: normalizing the result of normalize   *)
(* again gives the same identifier, so the route handler, which normalizes *)
(* the identifier the client normalized, resolves the client's identifier. *)
(***************************************************************************)
C30_NormalizeIdempotent ==
  (route = "normalize" /\ ret # NoRet) =>
    normalize(JsString(ret.v)) = ret.v

=============================================================================
